---- MODULE Spec2Model ----
(***************************************************************************)
(* Model of the SEC filing scraper of finance-dashboard                    *)
(* (src/utils/secscraper).                                                 *)
(*                                                                         *)
(* Spec          : get_filing_facts, the batch orchestrator, one action    *)
(*                 per stage of its loop body.                             *)
(* SpecPage      : the scraper page (src/pages/2SEC Scraper.py), one       *)
(*                 action per post-processing step applied to what         *)
(*                 get_filing_facts returned, and the split of the facts.  *)
(* SpecRequests  : threads constructing SECData / TickerData and sending   *)
(*                 requests through rate_limited_request, with the clock.  *)
(* SpecRequestsFair : SpecRequests with time passing and every thread      *)
(*                 scheduled.                                              *)
(* SpecRecorded  : SpecRequests with the requests sent in the last period  *)
(*                 recorded.                                               *)
(* SpecTwoRuns   : the page run twice over the same filings and the same   *)
(*                 replies of the filing host: get_filing_facts, then the  *)
(*                 post-processing, and again.                             *)
(* SpecTicker    : reads of the properties of one TickerData instance     *)
(*                 (filings, forms, filing_urls, latest_*, submissions).   *)
(***************************************************************************)
EXTENDS Integers, Sequences, FiniteSets, TLC

\* ------------------------------------------------------------------------
\* Bounds of the model
\* ------------------------------------------------------------------------
MaxFilings == 2
\* rows of the frame handed to the post-processing
MaxRows == 2
\* characters of a fact text
MaxStrLen == 4

\* ------------------------------------------------------------------------
\* Values
\* ------------------------------------------------------------------------
\* Python None / pandas NaN in a string column
Null == "None"
\* absent date (None / NaT); a date text is a tuple <<year, month, day>>
NoDate == <<>>
\* accessionNumber of no filing (a null provenance column after a left join)
NoAcc == 0

\* Context.segment: None when the context has no segment node, else a mapping
\* held as a sequence of <<axis, member>> pairs
NoSegment == [isNone |-> TRUE, items |-> <<>>]
SegmentOf(items) == [isNone |-> FALSE, items |-> items]

\* dt.datetime(2009, 1, 1), the date gate of get_filing_facts
GateYear == 2009

\* dt.datetime.strptime(text, '%Y-%m-%d') raises ValueError on a text that is
\* not a calendar date
DaysInMonth(y, m) ==
    IF m \in {4, 6, 9, 11} THEN 30
    ELSE IF m = 2 THEN (IF (y % 4 = 0 /\ y % 100 # 0) \/ y % 400 = 0 THEN 29 ELSE 28)
    ELSE 31

strptime_ok(text) ==
    /\ Len(text) = 3
    /\ text[1] \in 1..9999
    /\ text[2] \in 1..12
    /\ text[3] \in 1..DaysInMonth(text[1], text[2])

\* Context.startDate / endDate / instant: None when the element is absent,
\* the parsed date otherwise; raising is reported by ContextRaises
ParseDate(text) == IF text = NoDate THEN NoDate ELSE text

ContextRaises(tag) ==
    \E text \in {tag.startDate, tag.endDate, tag.instant} :
        text # NoDate /\ ~strptime_ok(text)

\* Context.to_dict
ContextToDict(tag) ==
    [contextId |-> tag.id,
     segment   |-> tag.segment,
     startDate |-> ParseDate(tag.startDate),
     endDate   |-> ParseDate(tag.endDate),
     instant   |-> ParseDate(tag.instant)]

\* Facts.to_dict
FactsToDict(tag) ==
    [factName   |-> tag.name,
     contextRef |-> tag.contextref,
     unitRef    |-> tag.unitref,
     factValue  |-> tag.text]

\* ------------------------------------------------------------------------
\* Documents the filing host can serve
\* ------------------------------------------------------------------------
\* a fact tag: its name (lower-cased by the parser), its attributes and its
\* text as a sequence of characters
FactTag(name, ctx, unit, text) ==
    [name |-> name, contextref |-> ctx, unitref |-> unit, text |-> text]

ContextTag(id, seg, s, e, i) ==
    [id |-> id, segment |-> seg, startDate |-> s, endDate |-> e, instant |-> i]

CtxDuration == ContextTag("c1", NoSegment, <<2022, 1, 1>>, <<2022, 3, 31>>, NoDate)
CtxInstant  == ContextTag("c2", SegmentOf(<< <<"us-gaap:SegmentAxis", "us-gaap:EuropeMember">> >>),
                          NoDate, NoDate, <<2022, 12, 31>>)
CtxBadDate  == ContextTag("c1", NoSegment, <<2022, 13, 1>>, <<2022, 3, 31>>, NoDate)
\* contexts without a segment: an instant, one whose period holds startDate,
\* endDate and instant, and one whose period holds none of them
CtxBalance  == ContextTag("c3", NoSegment, NoDate, NoDate, <<2022, 12, 31>>)
CtxBoth     == ContextTag("c1", NoSegment, <<2022, 1, 1>>, <<2022, 3, 31>>, <<2022, 3, 31>>)
CtxNeither  == ContextTag("c2", NoSegment, NoDate, NoDate, NoDate)

\* contexts whose segment node has no dimensional child, and two of them
CtxEmptySegment == ContextTag("c4", SegmentOf(<<>>), NoDate, NoDate, <<2022, 12, 31>>)
CtxTwoAxes  == ContextTag("c5", SegmentOf(<< <<"us-gaap:SegmentAxis", "us-gaap:EuropeMember">>,
                                             <<"us-gaap:ProductAxis", "us-gaap:ServiceMember">> >>),
                          NoDate, NoDate, <<2022, 12, 31>>)

RevenueFact == FactTag("us-gaap:revenues", "c1", "USD", <<"1", "0", "0">>)
AssetsFact  == FactTag("us-gaap:assets", "c2", "USD", <<"N", "/", "A">>)
OrphanFact  == FactTag("us-gaap:revenues", "c9", "EUR", <<"1", "0", "0">>)

\* a document: the fact tags and the context tags the Tag Extractor finds
DocNoFacts  == [facts |-> <<>>, contexts |-> <<CtxDuration>>]
DocGood     == [facts |-> <<RevenueFact, AssetsFact>>,
                contexts |-> <<CtxDuration, CtxInstant>>]
DocOrphan   == [facts |-> <<OrphanFact>>, contexts |-> <<CtxInstant>>]
DocBadDate  == [facts |-> <<RevenueFact>>, contexts |-> <<CtxBadDate>>]
DocMalformed == [facts |-> <<RevenueFact, AssetsFact>>,
                 contexts |-> <<CtxBoth, CtxNeither>>]

\* a fact that refers to context c2 in a document whose only context is c1,
\* and that context has a start date strptime rejects
DocStray    == [facts |-> <<AssetsFact>>, contexts |-> <<CtxBadDate>>]

Documents == {DocNoFacts, DocGood, DocOrphan, DocBadDate, DocMalformed, DocStray}
NoDocument == [facts |-> <<>>, contexts |-> <<>>]


\* ------------------------------------------------------------------------
\* Label linkbase (TickerData.get_elements, scrape_file_extension '_lab')
\* ------------------------------------------------------------------------
\* a raw row of the label linkbase: xlink:type, xlink:role as the segments of
\* its URL, xlink:label as its '_'-separated tokens, and the label text
LabelRow(type, role, label, text) ==
    [type |-> type, role |-> role, label |-> label, labelText |-> text]

RoleLabel == <<"http:", "", "www.xbrl.org", "2003", "role", "label">>
RoleTerse == <<"http:", "", "www.xbrl.org", "2003", "role", "terseLabel">>

LabelsPlain ==
    << LabelRow("resource", RoleLabel, <<"lab", "us-gaap", "Revenues", "en-US">>, "Revenues"),
       LabelRow("resource", RoleTerse, <<"lab", "us-gaap", "Revenues", "en-US">>, "Rev"),
       LabelRow("arc",      RoleLabel, <<"lab", "us-gaap", "Assets", "en-US">>, "Arc"),
       LabelRow("resource", RoleTerse, <<"lab", "us-gaap", "Assets", "en-US">>, "Assets, terse") >>

LabelsAmbiguous ==
    << LabelRow("resource", RoleLabel, <<"lab", "us-gaap", "Revenues", "en-US">>, "Revenues"),
       LabelRow("resource", RoleLabel, <<"us-gaap", "Revenues", "2", "en-US">>, "Revenue, Net"),
       LabelRow("resource", RoleLabel, <<"lab", "us-gaap", "Assets", "en-US">>, "Assets") >>

\* the label linkbases get_elements can return
LabelTables == {LabelsPlain, LabelsAmbiguous}

\* str.lower() on the strings that occur in the documents and linkbases
Lower(str) ==
    CASE str = "Revenues"             -> "revenues"
      [] str = "Assets"               -> "assets"
      [] str = "SegmentAxis"          -> "segmentaxis"
      [] str = "EuropeMember"         -> "europemember"
      [] str = "us-gaap:SegmentAxis"  -> "us-gaap:segmentaxis"
      [] str = "us-gaap:EuropeMember" -> "us-gaap:europemember"
      [] OTHER                        -> str

\* ':'.join(x) for the token lists that occur in the linkbases
JoinColon(toks) ==
    CASE toks = <<>>                            -> ""
      [] Len(toks) = 1                          -> toks[1]
      [] toks = <<"us-gaap", "revenues">>       -> "us-gaap:revenues"
      [] toks = <<"us-gaap", "assets">>         -> "us-gaap:assets"
      [] toks = <<"us-gaap", "segmentaxis">>    -> "us-gaap:segmentaxis"
      [] toks = <<"us-gaap", "europemember">>   -> "us-gaap:europemember"

Min(a, b) == IF a < b THEN a ELSE b

\* labels['xlink:role'].str.split('/').apply(lambda x: x[-1])
LastSegment(url) == url[Len(url)]

\* .str.replace('(lab_)|(_en-US)', '', regex=True).str.split('_')
\*     .apply(lambda x: ':'.join(x[:2])).str.lower()
NormalizeLabelKey(tokens) ==
    LET kept  == SelectSeq(tokens, LAMBDA t : t \notin {"lab", "en-US"})
        first == SubSeq(kept, 1, Min(2, Len(kept)))
    IN  JoinColon([k \in 1..Len(first) |-> Lower(first[k])])

\* the labels frame of one filing after the label stage of get_filing_facts
NormalizeLabels(table, acc) ==
    LET res == SelectSeq(table, LAMBDA r : r.type = "resource")
    IN  [k \in 1..Len(res) |->
            [role      |-> LastSegment(res[k].role),
             label     |-> NormalizeLabelKey(res[k].label),
             labelText |-> res[k].labelText,
             labAcc    |-> acc]]

\* ------------------------------------------------------------------------
\* Frames and the merge
\* ------------------------------------------------------------------------
\* a local frame variable of get_filing_facts: unbound until first assigned
UnboundFrame == [bound |-> FALSE, rows |-> <<>>]
BoundFrame(rows) == [bound |-> TRUE, rows |-> rows]

\* pd.DataFrame(): a frame without columns; cols turns TRUE once rows with
\* columns have been concatenated to it
EmptyFrame == [cols |-> FALSE, rows |-> <<>>]

\* pd.concat of a sequence of row sequences
RECURSIVE ConcatAll(_)
ConcatAll(seqs) ==
    IF seqs = <<>> THEN <<>> ELSE Head(seqs) \o ConcatAll(Tail(seqs))

\* the context columns of a fact row that matches no context
NullContext ==
    [contextId |-> Null, segment |-> NoSegment, startDate |-> NoDate,
     endDate |-> NoDate, instant |-> NoDate, ctxAcc |-> NoAcc]

\* the label columns of a row that matches no label
NullLabel ==
    [role |-> Null, label |-> Null, labelText |-> Null, labAcc |-> NoAcc]

\* DataFrame.merge(right, how='left'): every left row, in order, once per
\* matching right row, or once with null right columns when none matches.
\* facts_df.merge(context_df, how='left', left_on='contextRef',
\*                right_on='contextId')
JoinContexts(facts, contexts) ==
    ConcatAll([i \in 1..Len(facts) |->
        LET ms == SelectSeq(contexts, LAMBDA c : facts[i].contextRef = c.contextId)
        IN  IF ms = <<>> THEN << facts[i] @@ NullContext >>
            ELSE [k \in 1..Len(ms) |-> facts[i] @@ ms[k]]])

\* JoinLabels without the query on xlink:role: labels of every role match
JoinLabels_AnyRole(rows, labs) ==
    ConcatAll([i \in 1..Len(rows) |->
        LET ms == SelectSeq(labs, LAMBDA l : rows[i].factName = l.label)
        IN  IF ms = <<>> THEN << rows[i] @@ NullLabel >>
            ELSE [k \in 1..Len(ms) |-> rows[i] @@ ms[k]]])

\* .merge(labels.query("`xlink:role` == 'label'"), how='left',
\*        left_on='factName', right_on='xlink:label')
JoinLabels(rows, labs) ==
    LET roleLab == SelectSeq(labs, LAMBDA l : l.role = "label")
    IN  ConcatAll([i \in 1..Len(rows) |->
            LET ms == SelectSeq(roleLab, LAMBDA l : rows[i].factName = l.label)
            IN  IF ms = <<>> THEN << rows[i] @@ NullLabel >>
                ELSE [k \in 1..Len(ms) |-> rows[i] @@ ms[k]]])

\* MergeFacts with an implicit deduplication: one row per fact, joined to the
\* first matching label only
MergeFacts_FirstLabel(facts, contexts, labs) ==
    LET rows    == JoinContexts(facts, contexts)
        roleLab == SelectSeq(labs, LAMBDA l : l.role = "label")
    IN  [i \in 1..Len(rows) |->
            LET ms == SelectSeq(roleLab, LAMBDA l : rows[i].factName = l.label)
            IN  IF ms = <<>> THEN rows[i] @@ NullLabel ELSE rows[i] @@ ms[1]]

\* merged_facts = facts_df.merge(context_df, ...).merge(labels..., ...)
MergeFacts(facts, contexts, labs) ==
    JoinLabels(JoinContexts(facts, contexts), labs)

\* all_merged_facts.loc[~labelText.isnull(), [labelText, segment, startDate,
\* endDate, instant, factValue, unitRef]]; factAcc, ctxAcc and labAcc are kept
\* as history columns recording which filing each part of the row came from
ProjectMerged(rows) ==
    LET kept == SelectSeq(rows, LAMBDA r : r.labelText # Null)
    IN  [k \in 1..Len(kept) |->
            [labelText |-> kept[k].labelText, segment |-> kept[k].segment,
             startDate |-> kept[k].startDate, endDate |-> kept[k].endDate,
             instant   |-> kept[k].instant,   factValue |-> kept[k].factValue,
             unitRef   |-> kept[k].unitRef,
             factAcc   |-> kept[k].factAcc, ctxAcc |-> kept[k].ctxAcc,
             labAcc    |-> kept[k].labAcc]]

\* ------------------------------------------------------------------------
\* Standard-name translator (_mapping.py, reverse_standard_mapping,
\* translate_labels_to_standard_names)
\* ------------------------------------------------------------------------
\* one item of a canonical-name table: the canonical name and the list of
\* synonyms filed under it; a table is the sequence of its items in
\* insertion order
Entry(name, tags) == [name |-> name, tags |-> tags]

\* STANDARD_NAME_MAPPING as shipped
STANDARD_NAME_MAPPING ==
    << Entry("Revenue", <<"Revenue from Contract with Customer, Excluding Assessed Tax", "Revenues", "Revenue, Net", "Sales Revenue Net", "Sales Revenue, Net">>),
       Entry("Cost of Goods or Services", <<"Cost of Goods and Services Sold", "Cost Of Goods And Services Sold", "Cost of sales">>),
       Entry("Gross Profit", <<"">>),
       Entry("Operating Expenses", <<"">>),
       Entry("Operating Income", <<"">>),
       Entry("Interest Expense", <<"">>),
       Entry("Income Before Tax", <<"">>),
       Entry("Income Tax Expense", <<"Income Taxes Paid, Net", "Income Taxes Paid Net">>),
       Entry("Net Income", <<"Net Income (Loss)", "Net income", "Net sales", "Net Income Loss">>),
       Entry("Cash and Cash Equivalents", <<"">>),
       Entry("Short Term Investments", <<"">>),
       Entry("Total Cash", <<"">>),
       Entry("Net Receivables", <<"">>),
       Entry("Inventory", <<"">>),
       Entry("Other Current Assets", <<"">>),
       Entry("Total Current Assets", <<"">>),
       Entry("Long Term Investments", <<"">>),
       Entry("Property Plant and Equipment", <<"">>),
       Entry("Goodwill", <<"">>),
       Entry("Intangible Assets", <<"">>),
       Entry("Other Assets", <<"">>),
       Entry("Total Assets", <<"">>),
       Entry("Accounts Payable", <<"">>),
       Entry("Short/Current Long Term Debt", <<"">>),
       Entry("Other Current Liabilities", <<"">>),
       Entry("Total Current Liabilities", <<"">>),
       Entry("Long Term Debt", <<"">>),
       Entry("Other Liabilities", <<"">>),
       Entry("Total Liabilities", <<"">>),
       Entry("Common Stock", <<"">>),
       Entry("Retained Earnings", <<"">>),
       Entry("Treasury Stock", <<"">>),
       Entry("Capital Surplus", <<"">>),
       Entry("Shareholder Equity", <<"">>),
       Entry("Net Tangible Assets", <<"">>),
       Entry("Total Stockholders Equity", <<"">>),
       Entry("Net Cash Flow", <<"">>),
       Entry("Net Cash Flow-Operating", <<"">>),
       Entry("Net Cash Flows-Investing", <<"">>),
       Entry("Net Cash Flows-Financing", <<"">>),
       Entry("Effect of Exchange Rate Changes", <<"">>),
       Entry("Net Change in Cash", <<"">>),
       Entry("Cash Interest Paid", <<"">>),
       Entry("Cash Taxes Paid", <<"">>),
       Entry("Depreciation and Amortization", <<"">>),
       Entry("Capital Expenditures", <<"">>),
       Entry("Change in Working Capital", <<"">>),
       Entry("Free Cash Flow", <<"">>),
       Entry("Free Cash Flow per Share", <<"">>),
       Entry("Operating Cash Flow per Share", <<"">>),
       Entry("Cash per Share", <<"">>),
       Entry("Book Value per Share", <<"">>),
       Entry("Tangible Book Value per Share", <<"">>),
       Entry("Shareholders Equity per Share", <<"">>),
       Entry("Interest Debt per Share", <<"">>),
       Entry("Market Cap", <<"">>),
       Entry("Enterprise Value", <<"">>),
       Entry("PE Ratio", <<"">>),
       Entry("Price to Sales Ratio", <<"">>),
       Entry("POCF Ratio", <<"">>),
       Entry("PFCF Ratio", <<"">>),
       Entry("PB Ratio", <<"">>),
       Entry("PTB Ratio", <<"">>),
       Entry("EV to Sales", <<"">>),
       Entry("Enterprise Value over EBITDA", <<"">>),
       Entry("EV to Operating cash flow", <<"">>) >>

\* a table in which no synonym is listed twice
MappingDistinct ==
    << Entry("Revenue", <<"Revenues", "Revenue, Net">>),
       Entry("Total Assets", <<"Assets">>) >>

\* a table that lists "Revenues" under two canonical names
MappingDuplicate ==
    << Entry("Revenue", <<"Revenues", "Revenue, Net">>),
       Entry("Net Income", <<"Net income", "Revenues">>) >>

MappingTables == {STANDARD_NAME_MAPPING, MappingDistinct, MappingDuplicate}

\* the (tag, standard_name) assignments of the two nested loops, in the order
\* they are executed
MappingItems(table) ==
    ConcatAll([i \in 1..Len(table) |->
        [k \in 1..Len(table[i].tags) |-> <<table[i].tags[k], table[i].name>>]])

\* reverse_standard_mapping: reverse_mapping[tag] = standard_name for every
\* item in turn, so the last assignment to a tag is the one that stays
reverse_standard_mapping(table) ==
    LET items == MappingItems(table)
        last(tag) == CHOOSE j \in 1..Len(items) :
                        /\ items[j][1] = tag
                        /\ \A k \in (j + 1)..Len(items) : items[k][1] # tag
    IN  [tag \in {items[j][1] : j \in 1..Len(items)} |-> items[last(tag)][2]]

\* dict.get(x, x)
DictGet(mapping, x) == IF x \in DOMAIN mapping THEN mapping[x] ELSE x

\* translate_labels_to_standard_names with dict.get(x), None on a miss, in
\* place of dict.get(x, x)
translate_labels_NoFallback(rows, mapping) ==
    [k \in 1..Len(rows) |->
        [standardName |-> IF rows[k].labelText \in DOMAIN mapping
                          THEN mapping[rows[k].labelText] ELSE Null] @@ rows[k]]

\* translate_labels_to_standard_names: the rows with the column standardName
\* set
translate_labels_to_standard_names(rows, mapping) ==
    [k \in 1..Len(rows) |->
        [standardName |-> DictGet(mapping, rows[k].labelText)] @@ rows[k]]

\* ------------------------------------------------------------------------
\* Value cleaner (clean_values_in_facts)
\* ------------------------------------------------------------------------
Digits == {"0", "1", "2", "3", "4", "5", "6", "7", "8", "9"}

DigitValue(ch) ==
    CASE ch = "0" -> 0 [] ch = "1" -> 1 [] ch = "2" -> 2 [] ch = "3" -> 3
      [] ch = "4" -> 4 [] ch = "5" -> 5 [] ch = "6" -> 6 [] ch = "7" -> 7
      [] ch = "8" -> 8 [] ch = "9" -> 9

\* the position after the longest run of digits of str that starts at p (\d+
\* is greedy, and no shorter run can match when followed by \. or $)
RECURSIVE SkipDigits(_, _)
SkipDigits(str, p) ==
    IF p <= Len(str) /\ str[p] \in Digits THEN SkipDigits(str, p + 1) ELSE p

\* $ without re.MULTILINE: at the end of the string, and also just before a
\* newline that is the last character of the string
AtDollar(str, p) ==
    \/ p = Len(str) + 1
    \/ p = Len(str) /\ str[p] = "\n"

\* the pattern without its optional sign
str_contains_unsigned(str) ==
    LET p2 == SkipDigits(str, 1)
        p3 == IF p2 <= Len(str) /\ str[p2] = "." THEN SkipDigits(str, p2 + 1)
              ELSE p2
    IN  /\ p2 > 1
        /\ \/ AtDollar(str, p2)
           \/ p3 > p2 + 1 /\ AtDollar(str, p3)

\* Series.str.contains('^-?\d+(\.\d+)?$'): re.search of the pattern in str
str_contains_numeric(str) ==
    LET p1 == IF Len(str) >= 1 /\ str[1] = "-" THEN 2 ELSE 1
        p2 == SkipDigits(str, p1)
        p3 == IF p2 <= Len(str) /\ str[p2] = "." THEN SkipDigits(str, p2 + 1)
              ELSE p2
    IN  /\ p2 > p1
        /\ \/ AtDollar(str, p2)
           \/ p3 > p2 + 1 /\ AtDollar(str, p3)

RECURSIVE Pow10(_)
Pow10(n) == IF n = 0 THEN 1 ELSE 10 * Pow10(n - 1)

\* the number written by the digits str[from..to-1]
RECURSIVE DigitsValue(_, _, _)
DigitsValue(str, from, to) ==
    IF to <= from THEN 0
    ELSE 10 * DigitsValue(str, from, to - 1) + DigitValue(str[to - 1])

\* number of decimal places kept of a float (a float is held as the integer
\* value * 10^FracDigits)
FracDigits == MaxStrLen

\* float(str) for a text that passed str_contains_numeric; float() ignores
\* surrounding whitespace, so a final newline does not count
astype_float(str) ==
    LET end   == IF str[Len(str)] = "\n" THEN Len(str) ELSE Len(str) + 1
        neg   == str[1] = "-"
        p1    == IF neg THEN 2 ELSE 1
        p2    == SkipDigits(str, p1)
        whole == DigitsValue(str, p1, p2)
        flen  == IF p2 < end THEN end - (p2 + 1) ELSE 0
        frac  == IF p2 < end THEN DigitsValue(str, p2 + 1, end) ELSE 0
        mag   == whole * Pow10(FracDigits) + frac * Pow10(FracDigits - flen)
    IN  IF neg THEN 0 - mag ELSE mag

\* clean_values_in_facts: the rows that pass the three tests, in their order,
\* with factValue cast to float
clean_values_in_facts(rows) ==
    LET kept == SelectSeq(rows, LAMBDA r :
                    /\ str_contains_numeric(r.factValue)
                    /\ r.factValue # <<>>
                    /\ r.factValue # <<"-">>)
    IN  [k \in 1..Len(kept) |->
            [kept[k] EXCEPT !.factValue = astype_float(@)]]

\* ------------------------------------------------------------------------
\* Period bucketing (get_monthly_period)
\* ------------------------------------------------------------------------
\* days from 0001-01-01 to the date <<y, m, d>>
RECURSIVE DaysBeforeMonth(_, _)
DaysBeforeMonth(y, m) ==
    IF m = 1 THEN 0 ELSE DaysBeforeMonth(y, m - 1) + DaysInMonth(y, m - 1)

DayNumber(date) ==
    LET y == date[1] - 1
    IN  365 * y + (y \div 4) - (y \div 100) + (y \div 400)
        + DaysBeforeMonth(date[1], date[2]) + date[3]

\* NaN in the column period; a period of n months is <<n>>
NoPeriod == <<>>

\* the period with months of 30 days: days / 30 rounded to 0 decimals, a tie
\* going to the even integer
PeriodOf_ThirtyDays(row) ==
    IF row.startDate = NoDate \/ row.endDate = NoDate THEN NoPeriod
    ELSE LET days == DayNumber(row.endDate) - DayNumber(row.startDate)
             q    == days \div 30
             r    == days % 30
         IN  << IF r > 15 \/ (r = 15 /\ q % 2 = 1) THEN q + 1 ELSE q >>

\* (endDate - startDate).days / 30.25 rounded to 0 decimals; days / 30.25 is
\* 4 * days / 121, which is never halfway between two integers
PeriodOf(row) ==
    IF row.startDate = NoDate \/ row.endDate = NoDate THEN NoPeriod
    ELSE << (8 * (DayNumber(row.endDate) - DayNumber(row.startDate)) + 121) \div 242 >>

\* np.select([...], [...], default=None)
MonthsEnded(period) ==
    CASE period = <<3>>  -> "Three Months Ended"
      [] period = <<6>>  -> "Six Months Ended"
      [] period = <<9>>  -> "Nine Months Ended"
      [] period = <<12>> -> "Twelve Months Ended"
      [] OTHER           -> Null

\* get_monthly_period: the frame with the columns period and Months Ended set
get_monthly_period(rows) ==
    [k \in 1..Len(rows) |->
        ("period" :> PeriodOf(rows[k])) @@
        ("Months Ended" :> MonthsEnded(PeriodOf(rows[k]))) @@ rows[k]]

\* ------------------------------------------------------------------------
\* Segment normalizer (clean_values_in_segment)
\* ------------------------------------------------------------------------
\* DataFrame.drop(columns, axis=1) on one row
DropColumns(row, columns) == [c \in (DOMAIN row) \ columns |-> row[c]]

\* list(x.keys())[0] / list(x.values())[0] raise IndexError on an empty dict
SegmentRaises(rows) ==
    \E k \in 1..Len(rows) :
        ~rows[k].segment.isNone /\ rows[k].segment.items = <<>>

\* list(x.keys())[0] if isinstance(x, dict) else "", lower-cased
SegmentAxisOf(seg) == IF seg.isNone THEN "" ELSE Lower(seg.items[1][1])

\* list(x.values())[0] if isinstance(x, dict) else "", lower-cased
SegmentValueOf(seg) == IF seg.isNone THEN "" ELSE Lower(seg.items[1][2])

\* .merge(labels_df, how='left', left_on='segmentAxis',
\*        right_on='xlink:label', suffixes=('', '_segmentAxis'))
JoinSegmentAxis(rows, labs) ==
    ConcatAll([i \in 1..Len(rows) |->
        LET ms == SelectSeq(labs, LAMBDA l : rows[i].segmentAxis = l.label)
        IN  IF ms = <<>>
            THEN << ("xlink:label" :> Null) @@
                    ("labelText_segmentAxis" :> Null) @@ rows[i] >>
            ELSE [k \in 1..Len(ms) |->
                    ("xlink:label" :> ms[k].label) @@
                    ("labelText_segmentAxis" :> ms[k].labelText) @@ rows[i]]])

\* .merge(labels_df, how='left', left_on='segmentValue',
\*        right_on='xlink:label', suffixes=('', '_segmentValue')) followed by
\* labelText_segmentValue.fillna(segmentValue)
JoinSegmentValue(rows, labs) ==
    ConcatAll([i \in 1..Len(rows) |->
        LET ms == SelectSeq(labs, LAMBDA l : rows[i].segmentValue = l.label)
        IN  IF ms = <<>>
            THEN << ("xlink:label_segmentValue" :> Null) @@
                    ("labelText_segmentValue" :> rows[i].segmentValue) @@ rows[i] >>
            ELSE [k \in 1..Len(ms) |->
                    ("xlink:label_segmentValue" :> ms[k].label) @@
                    ("labelText_segmentValue" :>
                        IF ms[k].labelText = Null THEN rows[i].segmentValue
                        ELSE ms[k].labelText) @@ rows[i]]])

\* clean_values_in_segment on rows whose segments are None or non-empty
clean_values_in_segment(rows, labels_df) ==
    LET keyed == [k \in 1..Len(rows) |->
                    ("segmentAxis" :> SegmentAxisOf(rows[k].segment)) @@
                    ("segmentValue" :> SegmentValueOf(rows[k].segment)) @@
                    DropColumns(rows[k], {"segment"})]
        labs   == SelectSeq(labels_df, LAMBDA l : l.role = "label")
        joined == JoinSegmentValue(JoinSegmentAxis(keyed, labs), labs)
    IN  [k \in 1..Len(joined) |->
            DropColumns(joined[k], {"segmentAxis", "segmentValue", "xlink:label",
                                    "xlink:label_segmentValue"})]

\* ------------------------------------------------------------------------
\* Deduplication and the split (DataFrame.drop_duplicates,
\* split_facts_into_start_instant)
\* ------------------------------------------------------------------------
\* the rows at the positions in keep, in their order
PickRows(rows, keep) ==
    [k \in 1..Cardinality(keep) |->
        rows[CHOOSE i \in keep : Cardinality({j \in keep : j < i}) = k - 1]]

\* the values of a row in the columns of subset
KeyOf(row, subset) == [c \in subset |-> row[c]]

\* drop_duplicates(subset=subset), keep='first' by default
drop_duplicates_first(rows, subset) ==
    PickRows(rows, {i \in 1..Len(rows) :
        \A j \in 1..(i - 1) : KeyOf(rows[j], subset) # KeyOf(rows[i], subset)})

\* drop_duplicates(subset=subset, keep='last')
drop_duplicates_last(rows, subset) ==
    PickRows(rows, {i \in 1..Len(rows) :
        \A j \in (i + 1)..Len(rows) : KeyOf(rows[j], subset) # KeyOf(rows[i], subset)})

\* a dict cannot be hashed: drop_duplicates raises TypeError when a column of
\* subset holds one (an empty frame is returned before anything is hashed)
Unhashable(rows, subset) ==
    /\ "segment" \in subset
    /\ \E k \in 1..Len(rows) : ~rows[k].segment.isNone

\* position of a label text in the order of Python strings
TextRank(str) ==
    CASE str = ""                          -> 0
      [] str = "Assets"                    -> 1
      [] str = "EV to Operating cash flow" -> 2
      [] str = "Net Income"                -> 3
      [] str = "Revenue"                   -> 4
      [] str = "Revenues"                  -> 5
      [] str = "Total Assets"              -> 6
      [] str = "us-gaap:europemember"      -> 7
      [] str = "us-gaap:segmentaxis"       -> 8

\* lexicographic order of two tuples of integers of the same length
TupleLess(a, b) ==
    \E i \in 1..Len(a) : a[i] < b[i] /\ \A j \in 1..(i - 1) : a[j] = b[j]

\* sort_values on several columns is a stable sort: rows ordered by their
\* keys, ties in their original order
SortByKey(rows, keys) ==
    [k \in 1..Len(rows) |->
        rows[CHOOSE i \in 1..Len(rows) :
                Cardinality({j \in 1..Len(rows) :
                    \/ TupleLess(keys[j], keys[i])
                    \/ keys[j] = keys[i] /\ j < i}) = k - 1]]

SplitSubset == {"labelText", "segment", "startDate", "endDate", "instant", "factValue"}

\* split_facts_into_start_instant on rows whose segments are all None
split_facts_into_start_instant(rows) ==
    LET merged == drop_duplicates_last(rows, SplitSubset)
        se     == SelectSeq(merged, LAMBDA r : r.startDate # NoDate /\ r.endDate # NoDate)
        ins    == SelectSeq(merged, LAMBDA r : r.instant # NoDate)
    IN  [merged_facts |-> merged,
         start_end |->
            SortByKey([k \in 1..Len(se) |-> DropColumns(se[k], {"instant"})],
                      [k \in 1..Len(se) |-> <<TextRank(se[k].labelText),
                                              DayNumber(se[k].startDate),
                                              DayNumber(se[k].endDate)>>]),
         instant |->
            SortByKey([k \in 1..Len(ins) |-> DropColumns(ins[k], {"startDate", "endDate"})],
                      [k \in 1..Len(ins) |-> <<TextRank(ins[k].labelText),
                                               DayNumber(ins[k].instant)>>])]

\* ------------------------------------------------------------------------
\* State of one call of get_filing_facts
\* ------------------------------------------------------------------------
VARIABLES
    filings_to_scrape,  \* the argument: a list of filing descriptors
    idx,                \* position of `file` in filings_to_scrape (1-based)
    pc,                 \* the stage the loop body is about to run
    soup,               \* the parsed document of the current filing
    facts_list,         \* local facts_list
    facts_df,           \* local facts_df
    context_df,         \* local context_df
    labels,             \* local labels
    merged_facts,       \* local merged_facts
    all_facts, all_context, all_labels, all_calc, all_defn, all_metalinks,
    all_merged_facts,   \* the accumulators
    failed_folders,     \* the failure list
    outcome,            \* "running", "returned" or "raised"
    raised_at,          \* the statement an exception left the call from
    fstate              \* history: what became of each filing

ovars == <<filings_to_scrape, idx, pc, soup, facts_list, facts_df, context_df,
           labels, merged_facts, all_facts, all_context, all_labels, all_calc,
           all_defn, all_metalinks, all_merged_facts, failed_folders, outcome,
           raised_at, fstate>>

\* ------------------------------------------------------------------------
\* State of the scraper page
\* ------------------------------------------------------------------------
VARIABLES
    standard_name_mapping,  \* the canonical-name table the page imports
    reversed_mapping,       \* module-level reversed_mapping of the page
    page_merged_facts,      \* the page's merged_facts frame
    final_df,               \* the page's final_df frame
    split,                  \* what split_facts_into_start_instant returned
    page_pc,                \* next step of the page
    page_error              \* exception that ended the page run, "" if none

pvars == <<standard_name_mapping, reversed_mapping, page_merged_facts, final_df,
           split, page_pc, page_error>>

\* ------------------------------------------------------------------------
\* State of the request wrapper (SECData.rate_limited_request) and of the
\* threads that construct SECData / TickerData and send requests through it
\* ------------------------------------------------------------------------
VARIABLES
    limiter,    \* the RateLimitDecorator of rate_limited_request: one per class
                \* definition, shared by every instance of SECData and TickerData
    callers,    \* per thread: the instance it constructs and its position
    wire,       \* history: requests.get calls by age in ticks, wire[1] the newest
    ticker_data \* the TickerData instance the page holds (ticker_init)
                \* (<<>> where the calls are not recorded)

rvars == <<limiter, callers, wire, ticker_data>>

\* ------------------------------------------------------------------------
\* The comparison of two runs of the page
\* ------------------------------------------------------------------------
VARIABLES
    run,        \* 0: a single run, compared with none; 1, 2: first, second run
    tape,       \* history: the first run of get_filing_facts step by step,
                \* what the filing host replied and the locals after the step
    tape_pos,   \* position on the tape of the next step of the second run
    first       \* history: what the first run ended with

hvars == <<run, tape, tape_pos, first>>

vars == <<ovars, pvars, rvars, hvars>>

NoResult == [outcome |-> "none"]

\* a single run
NoComparison ==
    /\ run = 0
    /\ tape = <<>>
    /\ tape_pos = 1
    /\ first = NoResult

\* no thread exists
\* no TickerData instance exists
NoTicker ==
    [submissions |-> "none", files |-> 0, filings |-> 0, forms |-> 0,
     filing_urls |-> 0, runs |-> 0, returns |-> 0, read |-> {},
     last |-> "none", raised |-> FALSE]

NoRequests ==
    /\ limiter = [num_calls |-> 0, elapsed |-> 0]
    /\ callers = <<>>
    /\ wire = <<>>
    /\ ticker_data = NoTicker

\* a frame with named columns
Frame(cols, rows) == [cols |-> cols, rows |-> rows]

UnboundMapping == [bound |-> FALSE, map |-> <<>>]
UnboundSplit ==
    [bound |-> FALSE, merged_facts |-> <<>>, start_end |-> <<>>, instant |-> <<>>]

\* the page before its module body has run
PageNotStarted ==
    /\ reversed_mapping = UnboundMapping
    /\ page_merged_facts = Frame({}, <<>>)
    /\ final_df = Frame({}, <<>>)
    /\ split = UnboundSplit
    /\ page_error = ""

\* the filing descriptors a caller can supply: form and filingDate
FilingKinds ==
    { [form |-> "10-K", filingDate |-> <<2010, 2, 1>>],
      [form |-> "10-K", filingDate |-> <<2008, 2, 1>>],
      [form |-> "8-K",  filingDate |-> <<2008, 12, 31>>] }

\* lists of at most MaxFilings descriptors; accessionNumber is unique per filing
FilingLists ==
    UNION { { [k \in 1..n |-> [accessionNumber |-> k,
                               form |-> kinds[k].form,
                               filingDate |-> kinds[k].filingDate]] :
              kinds \in [1..n -> FilingKinds] } : n \in 0..MaxFilings }

Init ==
    /\ filings_to_scrape \in FilingLists
    /\ idx = 1
    /\ pc = "loop"
    /\ soup = NoDocument
    /\ facts_list = <<>>
    /\ facts_df = UnboundFrame
    /\ context_df = UnboundFrame
    /\ labels = UnboundFrame
    /\ merged_facts = UnboundFrame
    /\ all_facts = <<>>
    /\ all_context = <<>>
    /\ all_labels = <<>>
    /\ all_calc = <<>>
    /\ all_defn = <<>>
    /\ all_metalinks = <<>>
    /\ all_merged_facts = EmptyFrame
    /\ failed_folders = <<>>
    /\ outcome = "running"
    /\ raised_at = "nowhere"
    /\ fstate = [k \in 1..Len(filings_to_scrape) |-> "Pending"]
    /\ standard_name_mapping = STANDARD_NAME_MAPPING
    /\ page_pc = "waiting"
    /\ PageNotStarted
    /\ NoRequests
    /\ NoComparison

file == filings_to_scrape[idx]

\* get_filing_facts is about to run stage; the page is blocked in the call
\* (a single run keeps no record of the replies it received)
Running(stage) ==
    /\ outcome = "running"
    /\ pc = stage
    /\ UNCHANGED <<pvars, rvars>>
    /\ run = 0 => UNCHANGED hvars

\* failed_folders.append(dict(folder_url=..., accessionNumber=..., error=...,
\*                            filingDate=...))
FailureRecord(stage) ==
    [accessionNumber |-> file.accessionNumber, error |-> stage,
     filingDate |-> file.filingDate]

\* an exception that no try block of get_filing_facts encloses
Raise(where) ==
    /\ outcome' = "raised"
    /\ raised_at' = where
    /\ pc' = "done"

\* a gate that lets annual and quarterly reports through whatever their date
DateGate_FormAware(f) ==
    /\ (f.form # "10-Q" /\ f.form # "10-K")
    /\ f.filingDate[1] < GateYear

\* (form != '10-Q' or form != '10-K') and filingDate < dt.datetime(2009, 1, 1)
DateGate(f) ==
    /\ (f.form # "10-Q" \/ f.form # "10-K")
    /\ f.filingDate[1] < GateYear

\* for file in filings_to_scrape: ... continue   (lines 61-63)
SkipOldFiling ==
    /\ Running("loop")
    /\ idx <= Len(filings_to_scrape)
    /\ DateGate(file)
    /\ idx' = idx + 1
    /\ fstate' = [fstate EXCEPT ![idx] = "Skipped"]
    /\ UNCHANGED <<filings_to_scrape, pc, soup, facts_list, facts_df, context_df,
                   labels, merged_facts, all_facts, all_context, all_labels,
                   all_calc, all_defn, all_metalinks, all_merged_facts,
                   failed_folders, outcome, raised_at>>

\* soup = ticker.get_file_data(file_url=file_url)   (line 71, no try block)
FetchDocument ==
    /\ Running("loop")
    /\ idx <= Len(filings_to_scrape)
    /\ ~DateGate(file)
    /\ \E doc \in Documents :
        /\ soup' = doc
        /\ pc' = "facts"
        /\ fstate' = [fstate EXCEPT ![idx] = "Extracting"]
    /\ UNCHANGED <<filings_to_scrape, idx, facts_list, facts_df, context_df,
                   labels, merged_facts, all_facts, all_context, all_labels,
                   all_calc, all_defn, all_metalinks, all_merged_facts,
                   failed_folders, outcome, raised_at>>

\* get_file_data raises: the request fails or the document cannot be parsed
FetchDocumentRaises ==
    /\ Running("loop")
    /\ idx <= Len(filings_to_scrape)
    /\ ~DateGate(file)
    /\ Raise("get_file_data")
    /\ fstate' = [fstate EXCEPT ![idx] = "Aborted"]
    /\ UNCHANGED <<filings_to_scrape, idx, soup, facts_list, facts_df, context_df,
                   labels, merged_facts, all_facts, all_context, all_labels,
                   all_calc, all_defn, all_metalinks, all_merged_facts,
                   failed_folders>>

\* df['accessionNumber'] = accessionNumber
WithAcc(rows, field, acc) ==
    [k \in 1..Len(rows) |-> rows[k] @@ (field :> acc)]

\* ScrapeFacts without the `continue` of the zero-facts check: a filing
\* without facts goes on to the context stage
ScrapeFacts_NoSoftStop ==
    /\ Running("facts")
    /\ \/ LET list == [k \in 1..Len(soup.facts) |-> FactsToDict(soup.facts[k])]
              df   == WithAcc(list, "factAcc", file.accessionNumber)
          IN  /\ facts_list' = list
              /\ facts_df' = BoundFrame(df)
              /\ all_facts' = all_facts \o df
              /\ failed_folders' = failed_folders
              /\ idx' = idx
              /\ pc' = "context"
              /\ fstate' = IF list = <<>>
                           THEN [fstate EXCEPT ![idx] = "NoFacts"] ELSE fstate
       \/ /\ facts_list' = <<>>
          /\ failed_folders' = Append(failed_folders, FailureRecord("facts"))
          /\ idx' = idx + 1
          /\ pc' = "loop"
          /\ fstate' = [fstate EXCEPT ![idx] = "Failed"]
          /\ UNCHANGED <<facts_df, all_facts>>
    /\ UNCHANGED <<filings_to_scrape, soup, context_df, labels, merged_facts,
                   all_context, all_labels, all_calc, all_defn, all_metalinks,
                   all_merged_facts, outcome, raised_at>>

\* try: Scrape facts ... if len(facts_list) == 0: continue   (lines 73-92)
ScrapeFacts ==
    /\ Running("facts")
    /\ \/ \* search_facts returns the fact tags of the document
          LET list == [k \in 1..Len(soup.facts) |-> FactsToDict(soup.facts[k])]
              df   == WithAcc(list, "factAcc", file.accessionNumber)
          IN  /\ facts_list' = list
              /\ facts_df' = BoundFrame(df)
              /\ all_facts' = all_facts \o df
              /\ failed_folders' = failed_folders
              /\ IF list = <<>>
                 THEN /\ idx' = idx + 1
                      /\ pc' = "loop"
                      /\ fstate' = [fstate EXCEPT ![idx] = "NoFacts"]
                 ELSE /\ idx' = idx
                      /\ pc' = "context"
                      /\ fstate' = fstate
       \/ \* search_facts raises: facts_list is the empty list of line 74
          /\ facts_list' = <<>>
          /\ failed_folders' = Append(failed_folders, FailureRecord("facts"))
          /\ idx' = idx + 1
          /\ pc' = "loop"
          /\ fstate' = [fstate EXCEPT ![idx] = "Failed"]
          /\ UNCHANGED <<facts_df, all_facts>>
    /\ UNCHANGED <<filings_to_scrape, soup, context_df, labels, merged_facts,
                   all_context, all_labels, all_calc, all_defn, all_metalinks,
                   all_merged_facts, outcome, raised_at>>

\* try: Scrape context   (lines 94-108)
ScrapeContext ==
    /\ Running("context")
    /\ IF \E k \in 1..Len(soup.contexts) : ContextRaises(soup.contexts[k])
       THEN \* Context(...).to_dict() raises; context_df keeps its old binding
            /\ failed_folders' = Append(failed_folders, FailureRecord("context"))
            /\ fstate' = [fstate EXCEPT ![idx] = "Failed"]
            /\ UNCHANGED <<context_df, all_context>>
       ELSE LET list == [k \in 1..Len(soup.contexts) |-> ContextToDict(soup.contexts[k])]
                df   == WithAcc(list, "ctxAcc", file.accessionNumber)
            IN  /\ context_df' = BoundFrame(df)
                /\ all_context' = all_context \o df
                /\ UNCHANGED <<failed_folders, fstate>>
    /\ pc' = "index"
    /\ UNCHANGED <<filings_to_scrape, idx, soup, facts_list, facts_df, labels,
                   merged_facts, all_facts, all_labels, all_calc, all_defn,
                   all_metalinks, all_merged_facts, outcome, raised_at>>

\* index_df = ticker.get_filing_folder_index(folder_url=folder_url)
\* (line 110, no try block)
FetchIndex ==
    /\ Running("index")
    /\ pc' = "metalinks"
    /\ UNCHANGED <<filings_to_scrape, idx, soup, facts_list, facts_df, context_df,
                   labels, merged_facts, all_facts, all_context, all_labels,
                   all_calc, all_defn, all_metalinks, all_merged_facts,
                   failed_folders, outcome, raised_at, fstate>>

\* get_filing_folder_index raises: the request fails or the reply is not the
\* JSON directory listing
FetchIndexRaises ==
    /\ Running("index")
    /\ Raise("get_filing_folder_index")
    /\ fstate' = [fstate EXCEPT ![idx] = "Aborted"]
    /\ UNCHANGED <<filings_to_scrape, idx, soup, facts_list, facts_df, context_df,
                   labels, merged_facts, all_facts, all_context, all_labels,
                   all_calc, all_defn, all_metalinks, all_merged_facts,
                   failed_folders>>

\* try: Scrape metalinks   (lines 112-123).  The call passes folder_url=... to
\* TickerData.get_metalinks(self, metalinks_url), so it raises TypeError for
\* every filing and the except branch runs.
ScrapeMetalinks ==
    /\ Running("metalinks")
    /\ failed_folders' = Append(failed_folders, FailureRecord("metalinks"))
    /\ fstate' = [fstate EXCEPT ![idx] = "Failed"]
    /\ pc' = "labels"
    /\ UNCHANGED <<filings_to_scrape, idx, soup, facts_list, facts_df, context_df,
                   labels, merged_facts, all_facts, all_context, all_labels,
                   all_calc, all_defn, all_metalinks, all_merged_facts,
                   outcome, raised_at>>

\* try: Scrape labels   (lines 125-144)
ScrapeLabels ==
    /\ Running("labels")
    /\ \/ \E table \in LabelTables :
            LET df == NormalizeLabels(table, file.accessionNumber)
            IN  /\ labels' = BoundFrame(df)
                /\ all_labels' = all_labels \o df
                /\ UNCHANGED <<failed_folders, fstate>>
       \/ \* get_elements raises; labels keeps its old binding
          /\ failed_folders' = Append(failed_folders, FailureRecord("labels"))
          /\ fstate' = [fstate EXCEPT ![idx] = "Failed"]
          /\ UNCHANGED <<labels, all_labels>>
    /\ pc' = "calc"
    /\ UNCHANGED <<filings_to_scrape, idx, soup, facts_list, facts_df, context_df,
                   merged_facts, all_facts, all_context, all_calc, all_defn,
                   all_metalinks, all_merged_facts, outcome, raised_at>>

\* try: Scrape calculations   (lines 146-156)
ScrapeCalc ==
    /\ Running("calc")
    /\ \/ /\ all_calc' = Append(all_calc, file.accessionNumber)
          /\ UNCHANGED <<failed_folders, fstate>>
       \/ /\ failed_folders' = Append(failed_folders, FailureRecord("calc"))
          /\ fstate' = [fstate EXCEPT ![idx] = "Failed"]
          /\ UNCHANGED all_calc
    /\ pc' = "defn"
    /\ UNCHANGED <<filings_to_scrape, idx, soup, facts_list, facts_df, context_df,
                   labels, merged_facts, all_facts, all_context, all_labels,
                   all_defn, all_metalinks, all_merged_facts, outcome, raised_at>>

\* ScrapeDefn whose except branch puts the record at the head of the list
ScrapeDefn_Prepend ==
    /\ Running("defn")
    /\ \/ /\ all_defn' = Append(all_defn, file.accessionNumber)
          /\ UNCHANGED <<failed_folders, fstate>>
       \/ /\ failed_folders' = <<FailureRecord("defn")>> \o failed_folders
          /\ fstate' = [fstate EXCEPT ![idx] = "Failed"]
          /\ UNCHANGED all_defn
    /\ pc' = "merge"
    /\ UNCHANGED <<filings_to_scrape, idx, soup, facts_list, facts_df, context_df,
                   labels, merged_facts, all_facts, all_context, all_labels,
                   all_calc, all_metalinks, all_merged_facts, outcome, raised_at>>

\* try: Scrape definitions   (lines 158-168)
ScrapeDefn ==
    /\ Running("defn")
    /\ \/ /\ all_defn' = Append(all_defn, file.accessionNumber)
          /\ UNCHANGED <<failed_folders, fstate>>
       \/ /\ failed_folders' = Append(failed_folders, FailureRecord("defn"))
          /\ fstate' = [fstate EXCEPT ![idx] = "Failed"]
          /\ UNCHANGED all_defn
    /\ pc' = "merge"
    /\ UNCHANGED <<filings_to_scrape, idx, soup, facts_list, facts_df, context_df,
                   labels, merged_facts, all_facts, all_context, all_labels,
                   all_calc, all_metalinks, all_merged_facts, outcome, raised_at>>

\* MergeStage with a merge that works in place: facts_df becomes the merged
\* frame
MergeStage_InPlace ==
    /\ Running("merge")
    /\ IF context_df.bound /\ labels.bound
       THEN /\ merged_facts' = BoundFrame(
                    MergeFacts(facts_df.rows, context_df.rows, labels.rows))
            /\ facts_df' = merged_facts'
            /\ UNCHANGED <<failed_folders, fstate>>
       ELSE /\ failed_folders' = Append(failed_folders, FailureRecord("merge"))
            /\ fstate' = [fstate EXCEPT ![idx] = "Failed"]
            /\ UNCHANGED <<merged_facts, facts_df>>
    /\ pc' = "accumulate"
    /\ UNCHANGED <<filings_to_scrape, idx, soup, facts_list, context_df,
                   labels, all_facts, all_context, all_labels, all_calc, all_defn,
                   all_metalinks, all_merged_facts, outcome, raised_at>>

\* try: merged_facts = facts_df.merge(context_df, ...).merge(labels...)
\* (lines 172-185); reading a local that was never assigned raises
\* UnboundLocalError inside the try block
MergeStage ==
    /\ Running("merge")
    /\ IF context_df.bound /\ labels.bound
       THEN /\ merged_facts' = BoundFrame(
                    MergeFacts(facts_df.rows, context_df.rows, labels.rows))
            /\ UNCHANGED <<failed_folders, fstate>>
       ELSE /\ failed_folders' = Append(failed_folders, FailureRecord("merge"))
            /\ fstate' = [fstate EXCEPT ![idx] = "Failed"]
            /\ UNCHANGED merged_facts
    /\ pc' = "accumulate"
    /\ UNCHANGED <<filings_to_scrape, idx, soup, facts_list, facts_df, context_df,
                   labels, all_facts, all_context, all_labels, all_calc, all_defn,
                   all_metalinks, all_merged_facts, outcome, raised_at>>

\* Accumulate with the operands of pd.concat swapped: the rows of the
\* current filing come before the rows accumulated so far
Accumulate_Prepend ==
    /\ Running("accumulate")
    /\ IF merged_facts.bound
       THEN /\ all_merged_facts' =
                    [cols |-> TRUE, rows |-> merged_facts.rows \o all_merged_facts.rows]
            /\ idx' = idx + 1
            /\ pc' = "loop"
            /\ fstate' = [fstate EXCEPT ![idx] =
                              IF @ = "Failed" THEN "Failed" ELSE "Accumulated"]
            /\ UNCHANGED <<outcome, raised_at>>
       ELSE /\ Raise("concat merged_facts")
            /\ fstate' = [fstate EXCEPT ![idx] = "Aborted"]
            /\ UNCHANGED <<all_merged_facts, idx>>
    /\ UNCHANGED <<filings_to_scrape, soup, facts_list, facts_df, context_df,
                   labels, merged_facts, all_facts, all_context, all_labels,
                   all_calc, all_defn, all_metalinks, failed_folders>>

\* all_merged_facts = pd.concat([all_merged_facts, merged_facts])
\* (lines 187-194, no try block)
Accumulate ==
    /\ Running("accumulate")
    /\ IF merged_facts.bound
       THEN /\ all_merged_facts' =
                    [cols |-> TRUE, rows |-> all_merged_facts.rows \o merged_facts.rows]
            /\ idx' = idx + 1
            /\ pc' = "loop"
            /\ fstate' = [fstate EXCEPT ![idx] =
                              IF @ = "Failed" THEN "Failed" ELSE "Accumulated"]
            /\ UNCHANGED <<outcome, raised_at>>
       ELSE /\ Raise("concat merged_facts")
            /\ fstate' = [fstate EXCEPT ![idx] = "Aborted"]
            /\ UNCHANGED <<all_merged_facts, idx>>
    /\ UNCHANGED <<filings_to_scrape, soup, facts_list, facts_df, context_df,
                   labels, merged_facts, all_facts, all_context, all_labels,
                   all_calc, all_defn, all_metalinks, failed_folders>>

\* all_merged_facts = all_merged_facts.loc[~all_merged_facts['labelText']
\*     .isnull(), [...]]; return ...   (lines 196-199).  A frame that never
\* received a merged filing has no labelText column: KeyError.
Return ==
    /\ Running("loop")
    /\ idx > Len(filings_to_scrape)
    /\ IF all_merged_facts.cols
       THEN /\ all_merged_facts' =
                    [cols |-> TRUE, rows |-> ProjectMerged(all_merged_facts.rows)]
            /\ outcome' = "returned"
            /\ pc' = "done"
            /\ UNCHANGED raised_at
       ELSE /\ Raise("all_merged_facts['labelText']")
            /\ UNCHANGED all_merged_facts
    /\ UNCHANGED <<filings_to_scrape, idx, soup, facts_list, facts_df, context_df,
                   labels, merged_facts, all_facts, all_context, all_labels,
                   all_calc, all_defn, all_metalinks, failed_folders, fstate>>

Next ==
    \/ SkipOldFiling
    \/ FetchDocument
    \/ FetchDocumentRaises
    \/ ScrapeFacts
    \/ ScrapeContext
    \/ FetchIndex
    \/ FetchIndexRaises
    \/ ScrapeMetalinks
    \/ ScrapeLabels
    \/ ScrapeCalc
    \/ ScrapeDefn
    \/ MergeStage
    \/ Accumulate
    \/ Return

Spec == Init /\ [][Next]_vars

\* ------------------------------------------------------------------------
\* The scraper page (src/pages/2SEC Scraper.py): building the inverse table
\* at import, then the post-processing of what get_filing_facts returned
\* ------------------------------------------------------------------------
MergedColumns ==
    {"labelText", "segment", "startDate", "endDate", "instant", "factValue", "unitRef"}

\* a row of the frame get_filing_facts returns; row records its position in
\* that frame
MergedRow(text, ctx, value, unit, pos) ==
    [labelText |-> text, segment |-> ctx.segment,
     startDate |-> ParseDate(ctx.startDate), endDate |-> ParseDate(ctx.endDate),
     instant   |-> ParseDate(ctx.instant),
     factValue |-> value, unitRef |-> unit, row |-> pos]

\* a label linkbase with labels of the segment axis
LabelsSegment ==
    << LabelRow("resource", RoleLabel, <<"lab", "us-gaap", "SegmentAxis", "en-US">>, "Segment [Axis]"),
       LabelRow("resource", RoleTerse, <<"lab", "us-gaap", "EuropeMember", "en-US">>, "EU"),
       LabelRow("resource", RoleLabel, <<"lab", "us-gaap", "EuropeMember", "en-US">>, "Europe") >>

\* all_labels as returned: the label frames of the scraped filings
ScrapedLabels ==
    { NormalizeLabels(LabelsPlain, 1),
      NormalizeLabels(LabelsSegment, 1),
      NormalizeLabels(LabelsSegment, 1) \o NormalizeLabels(LabelsSegment, 2) }

\* characters of the fact texts
Chars == {"-", ".", "1", "N", "\n"}

\* the texts of at most n characters
RECURSIVE Strings(_)
Strings(n) ==
    IF n = 0 THEN {<<>>}
    ELSE LET shorter == Strings(n - 1)
         IN  shorter \cup {Append(s, c) : s \in {t \in shorter : Len(t) = n - 1},
                                          c \in Chars}

\* the rows a scrape can return at position pos
ScrapedRows(pos) ==
    { MergedRow(text, ctx, value, unit, pos) :
        text \in {"Revenues", "Assets"}, ctx \in {CtxDuration, CtxInstant},
        value \in {RevenueFact.text, AssetsFact.text}, unit \in {"USD", "EUR"} }

\* all_merged_facts as returned: frames of at most n rows
RECURSIVE ScrapedFrames(_)
ScrapedFrames(n) ==
    IF n = 0 THEN {<<>>}
    ELSE LET shorter == ScrapedFrames(n - 1)
         IN  shorter \cup {Append(f, r) : f \in {g \in shorter : Len(g) = n - 1},
                                          r \in ScrapedRows(n)}

\* frames of two rows in which one fact text is arbitrary
ValueFrames ==
    { <<MergedRow("Revenues", CtxDuration, a, "USD", 1),
        MergedRow("Revenues", CtxDuration, b, "USD", 2)>> :
        a \in Strings(MaxStrLen), b \in {RevenueFact.text, AssetsFact.text, <<"-">>} }
    \cup
    { <<MergedRow("Revenues", CtxDuration, b, "USD", 1),
        MergedRow("Revenues", CtxDuration, a, "USD", 2)>> :
        a \in Strings(MaxStrLen), b \in {RevenueFact.text, AssetsFact.text, <<"-">>} }

\* the end dates of the periods that start on 2020-01-01: every day from
\* 2019-12-01 to 2021-01-31
PeriodEnds ==
    {<<2019, 12, d>> : d \in 1..31}
    \cup {<<2020, m, d>> : m \in 1..12, d \in 1..31}
    \cup {<<2021, 1, d>> : d \in 1..31}

\* frames of one duration fact, of every length of period
PeriodFrames ==
    { <<MergedRow("Revenues",
                  ContextTag("c1", NoSegment, <<2020, 1, 1>>, end, NoDate),
                  RevenueFact.text, "USD", 1)>> :
        end \in {e \in PeriodEnds : strptime_ok(e)} }

\* frames of facts without segment, over the kinds of period a context tag
\* can hold
RECURSIVE PeriodKindFrames(_)
PeriodKindFrames(n) ==
    IF n = 0 THEN {<<>>}
    ELSE LET shorter == PeriodKindFrames(n - 1)
         IN  shorter \cup
             {Append(f, MergedRow("Revenues", ctx, RevenueFact.text, "USD", n)) :
                 f \in {g \in shorter : Len(g) = n - 1},
                 ctx \in {CtxDuration, CtxBalance, CtxBoth, CtxNeither}}

\* frames of one fact, over the kinds of segment Context.segment returns:
\* None, an empty mapping, one pair, two pairs
SegmentKindFrames ==
    { <<MergedRow("Revenues", ctx, RevenueFact.text, "USD", 1)>> :
        ctx \in {CtxBalance, CtxEmptySegment, CtxInstant, CtxTwoAxes} }

\* the page is imported, and get_filing_facts has returned to its button
\* handler
InitPage ==
    /\ filings_to_scrape = <<>>
    /\ idx = 1
    /\ pc = "done"
    /\ soup = NoDocument
    /\ facts_list = <<>>
    /\ facts_df = UnboundFrame
    /\ context_df = UnboundFrame
    /\ labels = UnboundFrame
    /\ merged_facts = UnboundFrame
    /\ all_facts = <<>>
    /\ all_context = <<>>
    /\ all_calc = <<>>
    /\ all_defn = <<>>
    /\ all_metalinks = <<>>
    /\ failed_folders = <<>>
    /\ outcome = "returned"
    /\ raised_at = "nowhere"
    /\ fstate = <<>>
    /\ \/ /\ all_merged_facts \in
                {[cols |-> TRUE, rows |-> f] : f \in ScrapedFrames(MaxRows)}
          /\ all_labels \in ScrapedLabels
          /\ standard_name_mapping \in MappingTables
       \/ /\ all_merged_facts \in {[cols |-> TRUE, rows |-> f] : f \in ValueFrames}
          /\ all_labels = NormalizeLabels(LabelsPlain, 1)
          /\ standard_name_mapping = STANDARD_NAME_MAPPING
       \/ /\ all_merged_facts \in
                {[cols |-> TRUE, rows |-> f] :
                    f \in PeriodFrames \cup PeriodKindFrames(MaxRows) \cup SegmentKindFrames}
          /\ all_labels = NormalizeLabels(LabelsPlain, 1)
          /\ standard_name_mapping = STANDARD_NAME_MAPPING
    /\ page_pc = "import"
    /\ PageNotStarted
    /\ NoRequests
    /\ NoComparison

\* the page is about to run step; get_filing_facts is not running
PageAt(step) == page_pc = step /\ UNCHANGED <<ovars, rvars, hvars>>

\* an exception that ends the run of the page
PageRaise(error) ==
    /\ page_error' = error
    /\ page_pc' = "raised"

\* reversed_mapping = reverse_standard_mapping(STANDARD_NAME_MAPPING)
\* (page line 29)
BuildReverseMapping ==
    /\ PageAt("import")
    /\ reversed_mapping' =
            [bound |-> TRUE, map |-> reverse_standard_mapping(standard_name_mapping)]
    /\ page_pc' = "scraped"
    /\ UNCHANGED <<standard_name_mapping, page_merged_facts, final_df, split,
                   page_error>>

\* final_df = get_monthly_period(merged_facts): the columns are added to
\* merged_facts itself, which final_df then names too
GetMonthlyPeriod ==
    /\ PageAt("scraped")
    /\ page_merged_facts' =
            Frame(MergedColumns \cup {"period", "Months Ended"},
                  get_monthly_period(all_merged_facts.rows))
    /\ final_df' = page_merged_facts'
    /\ page_pc' = "values"
    /\ UNCHANGED <<standard_name_mapping, reversed_mapping, split, page_error>>

\* final_df = clean_values_in_facts(merged_facts): a filtered copy
CleanValuesInFacts ==
    /\ PageAt("values")
    /\ final_df' = Frame(page_merged_facts.cols,
                         clean_values_in_facts(page_merged_facts.rows))
    /\ page_pc' = "segment"
    /\ UNCHANGED <<standard_name_mapping, reversed_mapping, page_merged_facts,
                   split, page_error>>

\* final_df = clean_values_in_segment(merged_facts=final_df, labels_df=labels)
CleanValuesInSegment ==
    /\ PageAt("segment")
    /\ IF SegmentRaises(final_df.rows)
       THEN /\ PageRaise("IndexError")
            /\ UNCHANGED final_df
       ELSE /\ final_df' =
                    Frame((final_df.cols \ {"segment"})
                            \cup {"labelText_segmentAxis", "labelText_segmentValue"},
                          clean_values_in_segment(final_df.rows, all_labels))
            /\ page_pc' = "translate"
            /\ UNCHANGED page_error
    /\ UNCHANGED <<standard_name_mapping, reversed_mapping, page_merged_facts, split>>

\* final_df = translate_labels_to_standard_names(merged_facts=final_df,
\*                standard_name_mapping=reversed_mapping)
TranslateLabels ==
    /\ PageAt("translate")
    /\ final_df' =
            Frame(final_df.cols \cup {"standardName"},
                  translate_labels_to_standard_names(final_df.rows, reversed_mapping.map))
    /\ page_pc' = "dedup"
    /\ UNCHANGED <<standard_name_mapping, reversed_mapping, page_merged_facts,
                   split, page_error>>

PageSubset ==
    {"standardName", "segmentAxis", "segmentValue", "startDate", "endDate",
     "instant", "factValue"}

PageSortBy ==
    {"standardName", "segmentAxis", "segmentValue", "startDate", "endDate"}

\* NaT sorts after every date
DateRank(date) ==
    IF date = NoDate THEN DayNumber(<<9999, 12, 31>>) + 1 ELSE DayNumber(date)

\* final_df = final_df.drop_duplicates(subset=[...]).sort_values(by=[...]):
\* KeyError when a named column is not in the frame (from drop_duplicates, or
\* from sort_values when the frame is empty)
DropDuplicatesPage ==
    /\ PageAt("dedup")
    /\ IF PageSubset \subseteq final_df.cols /\ PageSortBy \subseteq final_df.cols
       THEN /\ final_df' =
                    LET kept == drop_duplicates_first(final_df.rows, PageSubset)
                    IN  Frame(final_df.cols,
                              SortByKey(kept, [k \in 1..Len(kept) |->
                                  <<TextRank(kept[k].standardName),
                                    TextRank(kept[k].segmentAxis),
                                    TextRank(kept[k].segmentValue),
                                    DateRank(kept[k].startDate),
                                    DateRank(kept[k].endDate)>>]))
            /\ page_pc' = "done"
            /\ UNCHANGED page_error
       ELSE /\ PageRaise("KeyError")
            /\ UNCHANGED final_df
    /\ UNCHANGED <<standard_name_mapping, reversed_mapping, page_merged_facts, split>>

\* split_facts_into_start_instant(merged_facts) on the returned frame (the
\* page does not call it)
SplitFacts ==
    /\ PageAt("scraped")
    /\ IF Unhashable(all_merged_facts.rows, SplitSubset)
       THEN /\ PageRaise("TypeError")
            /\ UNCHANGED split
       ELSE /\ split' = [bound |-> TRUE] @@
                        split_facts_into_start_instant(all_merged_facts.rows)
            /\ page_pc' = "split"
            /\ UNCHANGED page_error
    /\ UNCHANGED <<standard_name_mapping, reversed_mapping, page_merged_facts, final_df>>

NextPage ==
    \/ BuildReverseMapping
    \/ GetMonthlyPeriod
    \/ CleanValuesInFacts
    \/ CleanValuesInSegment
    \/ TranslateLabels
    \/ DropDuplicatesPage
    \/ SplitFacts

SpecPage == InitPage /\ [][NextPage]_vars

\* ------------------------------------------------------------------------
\* The request wrapper: @sleep_and_retry @limits(calls=10, period=1) around
\* requests.get (sec_class.py, rate_limited_request), and the constructors
\* ------------------------------------------------------------------------
\* @limits(calls=10, period=1)
Calls == 10
\* clock ticks in one period of the limiter
TicksPerPeriod == 2
\* threads that use the wrapper
MaxCallers == 1

\* SECData.ALLOWED_TAXONOMIES
ALLOWED_TAXONOMIES == {"us-gaap", "ifrs-full", "dei", "srt"}

\* taxonomy arguments a caller can pass
TaxonomyArgs == {"us-gaap", "uk-gaap"}

\* requests of TickerData.__init__: get_ticker_cik (the CIK list),
\* get_submissions, get_cik_index
ConstructorRequests == 3

Threads == 1..MaxCallers

Max(a, b) == IF a > b THEN a ELSE b

\* a thread about to construct cls(taxonomy=taxonomy); cls is "-" once the
\* constructor has returned
NewCaller(cls, taxonomy) ==
    [cls |-> cls, taxonomy |-> taxonomy, pc |-> "new", left |-> 0,
     sleep |-> 0, tries |-> 0, result |-> "none"]

\* the module is imported (the decorator took last_reset = clock() some time
\* ago) and no request has been sent; keep: the number of ticks over which
\* the requests sent are recorded
RequestsStart(keep) ==
    /\ filings_to_scrape = <<>>
    /\ idx = 1
    /\ pc = "done"
    /\ soup = NoDocument
    /\ facts_list = <<>>
    /\ facts_df = UnboundFrame
    /\ context_df = UnboundFrame
    /\ labels = UnboundFrame
    /\ merged_facts = UnboundFrame
    /\ all_facts = <<>>
    /\ all_context = <<>>
    /\ all_labels = <<>>
    /\ all_calc = <<>>
    /\ all_defn = <<>>
    /\ all_metalinks = <<>>
    /\ all_merged_facts = EmptyFrame
    /\ failed_folders = <<>>
    /\ outcome = "returned"
    /\ raised_at = "nowhere"
    /\ fstate = <<>>
    /\ standard_name_mapping = STANDARD_NAME_MAPPING
    /\ page_pc = "waiting"
    /\ PageNotStarted
    /\ limiter \in {[num_calls |-> 0, elapsed |-> e] : e \in 0..TicksPerPeriod}
    /\ callers \in [Threads -> {NewCaller(cls, t) :
                        cls \in {"SECData", "TickerData"}, t \in TaxonomyArgs}]
    /\ wire = [k \in 1..keep |-> 0]
    /\ ticker_data = NoTicker
    /\ NoComparison

InitRequests == RequestsStart(0)

\* the same, with the requests of the last period recorded
InitRecorded == RequestsStart(TicksPerPeriod)

\* thread c is at position at; neither get_filing_facts nor the page
\* post-processing is modelled alongside
CallerAt(c, at) ==
    callers[c].pc = at /\ UNCHANGED <<ovars, pvars, hvars, ticker_data>>

\* __init__ with the taxonomy test moved behind the requests of
\* TickerData.__init__
Construct_CheckLast(c) ==
    /\ CallerAt(c, "new")
    /\ callers' = [callers EXCEPT ![c] =
            IF @.cls = "SECData"
            THEN IF @.taxonomy \notin ALLOWED_TAXONOMIES
                 THEN [@ EXCEPT !.pc = "raised", !.result = "ValueError"]
                 ELSE [@ EXCEPT !.pc = "ready", !.cls = "-"]
            ELSE [@ EXCEPT !.pc = "constructing", !.left = ConstructorRequests]]
    /\ UNCHANGED <<limiter, wire>>

\* SECData.__init__ / TickerData.__init__: the taxonomy test comes after the
\* logger and the headers are set and before anything else; TickerData then
\* goes on to the requests of its constructor
Construct(c) ==
    /\ CallerAt(c, "new")
    /\ callers' = [callers EXCEPT ![c] =
            IF @.taxonomy \notin ALLOWED_TAXONOMIES
            THEN [@ EXCEPT !.pc = "raised", !.result = "ValueError"]
            ELSE IF @.cls = "SECData"
            THEN [@ EXCEPT !.pc = "ready", !.cls = "-"]
            ELSE [@ EXCEPT !.pc = "constructing", !.left = ConstructorRequests]]
    /\ UNCHANGED <<limiter, wire>>

\* self.rate_limited_request(...) is called: by a method of a constructed
\* instance, or by TickerData.__init__ for its next request
Request(c) ==
    /\ \/ CallerAt(c, "ready")
       \/ CallerAt(c, "constructing")
    /\ callers' = [callers EXCEPT ![c] =
            [@ EXCEPT !.pc = "call", !.tries = 0, !.result = "none",
                      !.left = Max(@ - 1, 0)]]
    /\ UNCHANGED <<limiter, wire>>

\* the wrapper of @limits, run under its lock: reset when the period has
\* elapsed, count the call, and raise RateLimitException(period_remaining)
\* when the count exceeds calls; sleep_and_retry catches it and sleeps
Enter(c) ==
    /\ CallerAt(c, "call")
    /\ LET remaining == TicksPerPeriod - limiter.elapsed
           reset     == remaining <= 0
           count     == (IF reset THEN 0 ELSE limiter.num_calls) + 1
       IN  /\ limiter' = [num_calls |-> count,
                          elapsed   |-> IF reset THEN 0 ELSE limiter.elapsed]
           /\ callers' = [callers EXCEPT ![c] =
                    IF count > Calls
                    THEN [@ EXCEPT !.pc = "sleeping", !.sleep = remaining]
                    ELSE [@ EXCEPT !.pc = "admitted"]]
    /\ UNCHANGED wire

\* sleep_and_retry without its loop: the RateLimitException reaches the caller
Wake_NoRetry(c) ==
    /\ CallerAt(c, "sleeping")
    /\ callers[c].sleep = 0
    /\ callers' = [callers EXCEPT ![c] =
            [@ EXCEPT !.pc = "raised", !.result = "RateLimitException"]]
    /\ UNCHANGED <<limiter, wire>>

\* time.sleep(exception.period_remaining) is over: while True, call again
Wake(c) ==
    /\ CallerAt(c, "sleeping")
    /\ callers[c].sleep = 0
    /\ callers' = [callers EXCEPT ![c] = [@ EXCEPT !.pc = "call"]]
    /\ UNCHANGED <<limiter, wire>>

\* what requests.get can do
Outcomes == {"200", "non-2xx", "ConnectionError"}

\* the body of rate_limited_request, run outside the lock:
\* requests.get(url, headers=headers); a status other than 200 is logged and
\* the response returned, an exception of requests.get propagates.  In
\* TickerData.__init__ a response that is not the expected JSON ends the
\* construction.
Send(c) ==
    /\ CallerAt(c, "admitted")
    /\ wire' = IF wire = <<>> THEN wire ELSE [wire EXCEPT ![1] = @ + 1]
    /\ \E got \in Outcomes :
          callers' = [callers EXCEPT ![c] =
            IF @.cls = "-"
            THEN [@ EXCEPT !.pc = "ready", !.tries = @ + 1, !.result = got]
            ELSE IF got # "200"
            THEN [@ EXCEPT !.pc = "raised", !.tries = @ + 1, !.result = got]
            ELSE IF @.left = 0
            THEN [@ EXCEPT !.pc = "ready", !.tries = @ + 1, !.result = got,
                           !.cls = "-"]
            ELSE [@ EXCEPT !.pc = "constructing", !.tries = @ + 1, !.result = got]]
    /\ UNCHANGED limiter

\* the clock advances by one tick: the limiter's window and the sleepers age,
\* and the history of the wire moves on
Tick ==
    /\ UNCHANGED <<ovars, pvars, hvars, ticker_data>>
    /\ callers # <<>>
    /\ limiter' = [limiter EXCEPT !.elapsed = Min(@ + 1, TicksPerPeriod)]
    /\ callers' = [c \in Threads |->
                        [callers[c] EXCEPT !.sleep = Max(@ - 1, 0)]]
    /\ wire' = [k \in 1..Len(wire) |-> IF k = 1 THEN 0 ELSE wire[k - 1]]

NextRequests ==
    \/ \E c \in Threads : Construct(c)
    \/ \E c \in Threads : Request(c)
    \/ \E c \in Threads : Enter(c)
    \/ \E c \in Threads : Wake(c)
    \/ \E c \in Threads : Send(c)
    \/ Tick

SpecRequests == InitRequests /\ [][NextRequests]_vars

SpecRecorded == InitRecorded /\ [][NextRequests]_vars

\* time passes, a thread that can take a step of the wrapper takes it, and
\* the threads start only finitely many requests
SpecRequestsFair ==
    /\ InitRequests /\ [][NextRequests]_vars
    /\ WF_vars(Tick)
    /\ \A c \in Threads :
          /\ WF_vars(Construct(c))
          /\ WF_vars(Enter(c))
          /\ WF_vars(Wake(c))
          /\ WF_vars(Send(c))
    /\ <>[][\A c \in Threads : ~Request(c)]_vars

\* ------------------------------------------------------------------------
\* Two runs of the page over the same filings and the same replies: the
\* script is executed from its first line on every run (line 29, then the
\* handler of the button: get_filing_facts and the post-processing)
\* ------------------------------------------------------------------------
\* filings in the list of the compared runs
MaxReplayFilings == 1

ReplayLists ==
    UNION { { [k \in 1..n |-> [accessionNumber |-> k,
                               form |-> kinds[k].form,
                               filingDate |-> kinds[k].filingDate]] :
              kinds \in [1..n -> FilingKinds] } : n \in 0..MaxReplayFilings }

\* the locals of get_filing_facts before its first statement, and lines
\* 51-59: the accumulators and the failure list are created empty
CallStarts ==
    /\ idx' = 1
    /\ pc' = "loop"
    /\ soup' = NoDocument
    /\ facts_list' = <<>>
    /\ facts_df' = UnboundFrame
    /\ context_df' = UnboundFrame
    /\ labels' = UnboundFrame
    /\ merged_facts' = UnboundFrame
    /\ all_facts' = <<>>
    /\ all_context' = <<>>
    /\ all_labels' = <<>>
    /\ all_calc' = <<>>
    /\ all_defn' = <<>>
    /\ all_metalinks' = <<>>
    /\ all_merged_facts' = EmptyFrame
    /\ failed_folders' = <<>>
    /\ outcome' = "running"
    /\ raised_at' = "nowhere"
    /\ fstate' = [k \in 1..Len(filings_to_scrape) |-> "Pending"]

\* the step being taken asks the filing host for the document of a filing
\* (line 71)
FetchStep == pc = "loop" /\ idx <= Len(filings_to_scrape) /\ ~DateGate(file)

\* the call of get_filing_facts: nothing was asked of the host yet
NoReply == [stage |-> "call", raised |-> FALSE, soup |-> NoDocument,
            labels |-> UnboundFrame]

\* what the step being taken received from the filing host: the document, or
\* the label linkbase as get_elements returned it, or the exception raised
\* by the call that asked the host (get_file_data, search_facts,
\* get_filing_folder_index, get_elements for each linkbase)
Reply ==
    [stage  |-> pc,
     raised |-> \/ FetchStep /\ outcome' = "raised"
                \/ pc = "index" /\ outcome' = "raised"
                \/ /\ pc \in {"facts", "labels", "calc", "defn"}
                   /\ Len(failed_folders') > Len(failed_folders),
     soup   |-> IF FetchStep /\ outcome' = "running" THEN soup' ELSE NoDocument,
     labels |-> IF pc = "labels" /\ Len(failed_folders') = Len(failed_folders)
                THEN labels' ELSE UnboundFrame]

\* the first run is about to execute the script
InitTwoRuns ==
    /\ filings_to_scrape \in ReplayLists
    /\ idx = 1
    /\ pc = "loop"
    /\ soup = NoDocument
    /\ facts_list = <<>>
    /\ facts_df = UnboundFrame
    /\ context_df = UnboundFrame
    /\ labels = UnboundFrame
    /\ merged_facts = UnboundFrame
    /\ all_facts = <<>>
    /\ all_context = <<>>
    /\ all_labels = <<>>
    /\ all_calc = <<>>
    /\ all_defn = <<>>
    /\ all_metalinks = <<>>
    /\ all_merged_facts = EmptyFrame
    /\ failed_folders = <<>>
    /\ outcome = "running"
    /\ raised_at = "nowhere"
    /\ fstate = [k \in 1..Len(filings_to_scrape) |-> "Pending"]
    /\ standard_name_mapping = STANDARD_NAME_MAPPING
    /\ page_pc = "import"
    /\ PageNotStarted
    /\ NoRequests
    /\ run = 1
    /\ tape = << [reply |-> NoReply, after |-> ovars] >>
    /\ tape_pos = 2
    /\ first = NoResult

\* the first run records the replies of the host; the second run receives
\* the same replies in the same order
SameReplies ==
    /\ IF run = 1
       THEN /\ tape' = Append(tape, [reply |-> Reply, after |-> ovars'])
            /\ tape_pos' = tape_pos
       ELSE /\ tape_pos <= Len(tape)
            /\ Reply = tape[tape_pos].reply
            /\ tape' = tape
            /\ tape_pos' = tape_pos + 1
    /\ UNCHANGED <<run, first>>

\* the run has ended: get_filing_facts raised, or the post-processing ended
RunEnded ==
    \/ outcome = "raised"
    \/ outcome = "returned" /\ page_pc \in {"done", "raised"}

\* what a run ends with: the exception, or what get_filing_facts returned and
\* what the post-processing made of it
Result ==
    [outcome |-> outcome, raised_at |-> raised_at,
     all_labels |-> all_labels, all_calc |-> all_calc, all_defn |-> all_defn,
     all_context |-> all_context, all_facts |-> all_facts,
     all_metalinks |-> all_metalinks, all_merged_facts |-> all_merged_facts,
     failed_folders |-> failed_folders,
     final_df |-> final_df, page_error |-> page_error, page_pc |-> page_pc]

\* the second run with failed_folders a list that outlives the call
Rerun_KeepFailures ==
    /\ run = 1
    /\ RunEnded
    /\ first' = Result
    /\ run' = 2
    /\ tape_pos' = 2
    /\ idx' = 1
    /\ pc' = "loop"
    /\ soup' = NoDocument
    /\ facts_list' = <<>>
    /\ facts_df' = UnboundFrame
    /\ context_df' = UnboundFrame
    /\ labels' = UnboundFrame
    /\ merged_facts' = UnboundFrame
    /\ all_facts' = <<>>
    /\ all_context' = <<>>
    /\ all_labels' = <<>>
    /\ all_calc' = <<>>
    /\ all_defn' = <<>>
    /\ all_metalinks' = <<>>
    /\ all_merged_facts' = EmptyFrame
    /\ outcome' = "running"
    /\ raised_at' = "nowhere"
    /\ fstate' = [k \in 1..Len(filings_to_scrape) |-> "Pending"]
    /\ page_pc' = "import"
    /\ reversed_mapping' = UnboundMapping
    /\ page_merged_facts' = Frame({}, <<>>)
    /\ final_df' = Frame({}, <<>>)
    /\ split' = UnboundSplit
    /\ page_error' = ""
    /\ UNCHANGED <<filings_to_scrape, failed_folders, standard_name_mapping, tape, rvars>>

\* the button is pressed again: the script runs from its first line with
\* fresh globals and get_filing_facts is called with the same list
Rerun ==
    /\ run = 1
    /\ RunEnded
    /\ first' = Result
    /\ run' = 2
    /\ tape_pos' = 2
    /\ CallStarts
    /\ page_pc' = "import"
    /\ reversed_mapping' = UnboundMapping
    /\ page_merged_facts' = Frame({}, <<>>)
    /\ final_df' = Frame({}, <<>>)
    /\ split' = UnboundSplit
    /\ page_error' = ""
    /\ UNCHANGED <<filings_to_scrape, standard_name_mapping, tape, rvars>>

\* line 29 of the page, then get_filing_facts, then the post-processing
\* steps of the handler (lines 201-230)
NextTwoRuns ==
    \/ BuildReverseMapping
    \/ page_pc = "scraped" /\ Next /\ SameReplies
    \/ outcome = "returned" /\ GetMonthlyPeriod
    \/ CleanValuesInFacts
    \/ CleanValuesInSegment
    \/ TranslateLabels
    \/ DropDuplicatesPage
    \/ Rerun

SpecTwoRuns == InitTwoRuns /\ [][NextTwoRuns]_vars

\* ------------------------------------------------------------------------
\* TickerData: the memoized filings table and the properties that read it
\* (sec_class.py, lines 333-391 and 452-492; page lines 71-79)
\* ------------------------------------------------------------------------
\* get_filings runs followed per instance
MaxRuns == 3
\* additional submission files the submissions JSON can list
MaxFiles == 1

\* the instance after __init__: _submissions holds the JSON of the
\* submissions API, whose 'filings' entry is {recent, files}; _filings,
\* _forms and _filing_urls are None (0).  runs, returns, read, last and
\* raised are history: the get_filings calls started and returned, the
\* tables that reads of filings returned, the last read and whether it raised.
NewTicker(n) ==
    [submissions |-> "raw", files |-> n, filings |-> 0, forms |-> 0,
     filing_urls |-> 0, runs |-> 0, returns |-> 0, read |-> {},
     last |-> "init", raised |-> FALSE]

\* get_filings raises: _submissions['filings'] is no longer the JSON entry
\* (KeyError, TypeError), or get_submissions fails for an additional file
GetFilingsRaises(t, fails) == t.submissions # "raw" \/ (t.files > 0 /\ fails)

\* the filings property without the test of _filings: get_filings runs at
\* every read
filings_NoMemo(t, fails) ==
    IF GetFilingsRaises(t, fails)
    THEN [t EXCEPT !.runs = @ + 1, !.raised = TRUE]
    ELSE [t EXCEPT !.runs = @ + 1, !.returns = @ + 1, !.filings = t.runs + 1,
                   !.read = @ \cup {t.runs + 1}, !.raised = FALSE]

\* @property filings: if self._filings is None: self._filings =
\* self.get_filings(); return self._filings.  The table a run of get_filings
\* returns is named by the number of the run.
filings(t, fails) ==
    IF t.filings # 0
    THEN [t EXCEPT !.read = @ \cup {t.filings}, !.raised = FALSE]
    ELSE IF GetFilingsRaises(t, fails)
         THEN [t EXCEPT !.runs = @ + 1, !.raised = TRUE]
         ELSE [t EXCEPT !.runs = @ + 1, !.returns = @ + 1,
                        !.filings = t.runs + 1,
                        !.read = @ \cup {t.runs + 1}, !.raised = FALSE]

\* the properties that evaluate self.filings
FilingsReaders ==
    {"filings", "forms", "filing_urls", "latest_filing", "latest_10Q",
     "latest_10K", "latest_8K"}

\* whether the requests of the additional submission files fail
Replies(t) == IF t.files > 0 THEN BOOLEAN ELSE {FALSE}

InitTicker ==
    /\ filings_to_scrape = <<>>
    /\ idx = 1
    /\ pc = "done"
    /\ soup = NoDocument
    /\ facts_list = <<>>
    /\ facts_df = UnboundFrame
    /\ context_df = UnboundFrame
    /\ labels = UnboundFrame
    /\ merged_facts = UnboundFrame
    /\ all_facts = <<>>
    /\ all_context = <<>>
    /\ all_labels = <<>>
    /\ all_calc = <<>>
    /\ all_defn = <<>>
    /\ all_metalinks = <<>>
    /\ all_merged_facts = EmptyFrame
    /\ failed_folders = <<>>
    /\ outcome = "returned"
    /\ raised_at = "nowhere"
    /\ fstate = <<>>
    /\ standard_name_mapping = STANDARD_NAME_MAPPING
    /\ page_pc = "waiting"
    /\ PageNotStarted
    /\ limiter = [num_calls |-> 0, elapsed |-> 0]
    /\ callers = <<>>
    /\ wire = <<>>
    /\ ticker_data \in {NewTicker(n) : n \in 0..MaxFiles}
    /\ NoComparison

\* a read of the instance; nothing else is modelled alongside, and no more
\* than MaxRuns runs of get_filings are followed
TickerRead ==
    /\ ticker_data.submissions # "none"
    /\ ticker_data.filings = 0 => ticker_data.runs < MaxRuns
    /\ UNCHANGED <<ovars, pvars, hvars, limiter, callers, wire>>

\* a read of filings, forms, filing_urls or latest_*: forms and filing_urls
\* keep what they derived from the table at their first read
ReadProperty ==
    /\ TickerRead
    /\ \E prop \in FilingsReaders, fails \in Replies(ticker_data) :
        LET t == filings(ticker_data, fails)
        IN  ticker_data' =
                [t EXCEPT !.last = prop,
                          !.forms = IF prop = "forms" /\ ~t.raised /\ @ = 0
                                    THEN t.filings ELSE @,
                          !.filing_urls =
                                IF prop = "filing_urls" /\ ~t.raised /\ @ = 0
                                THEN t.filings ELSE @]

\* @property submissions: _submissions['cik'] = self.cik;
\* _submissions['filings'] = self.filings...to_dict('records')
ReadSubmissions ==
    /\ TickerRead
    /\ \E fails \in Replies(ticker_data) :
        LET t == filings(ticker_data, fails)
        IN  ticker_data' =
                [t EXCEPT !.last = "submissions",
                          !.submissions = IF t.raised THEN @ ELSE "records"]

\* ticker_data.submissions.pop("filings")   (page line 73): the mapping the
\* property returns is _submissions itself
PopFilings ==
    /\ TickerRead
    /\ \E fails \in Replies(ticker_data) :
        LET t == filings(ticker_data, fails)
        IN  ticker_data' =
                [t EXCEPT !.last = "pop",
                          !.submissions = IF t.raised THEN @ ELSE "popped"]

NextTicker ==
    \/ ReadProperty
    \/ ReadSubmissions
    \/ PopFilings

SpecTicker == InitTicker /\ [][NextTicker]_vars

\* ------------------------------------------------------------------------
\* Properties of the batch orchestrator
\* ------------------------------------------------------------------------
Filings == 1..Len(filings_to_scrape)

\* the FailureRecords appended for filing k
RecordsOf(k) ==
    {j \in 1..Len(failed_folders) : failed_folders[j].accessionNumber = k}

\* the rows of a frame that carry accession number k in the given column
RowsOf(rows, field, k) == {j \in 1..Len(rows) : rows[j][field] = k}

\* C1: when fetching a filing's document or its folder index listing raises,
\* the exception never leaves get_filing_facts: the call does not end by an
\* exception raised by get_file_data or get_filing_folder_index.
C1_FetchErrorStaysInside ==
    ~(outcome = "raised"
      /\ raised_at \in {"get_file_data", "get_filing_folder_index"})

\* C2: when a stage inside the orchestrator has raised for some filing (a
\* FailureRecord was appended), get_filing_facts does not raise from its own
\* statements: it does not end by the exceptions of the accumulation or of
\* the final projection.
C2_StageErrorNeverRaises ==
    ~(failed_folders # <<>>
      /\ outcome = "raised"
      /\ raised_at \in {"concat merged_facts", "all_merged_facts['labelText']"})

\* C3: after a batch run that returned, the failure list holds exactly one
\* FailureRecord for each filing of which a stage raised and none for any
\* other filing.
C3_OneRecordPerFailedFiling ==
    outcome = "returned" =>
        \A k \in Filings :
            Cardinality(RecordsOf(k)) = (IF fstate[k] = "Failed" THEN 1 ELSE 0)

\* C4: a filing for which a FailureRecord was appended contributes no row to
\* the merged-facts table that get_filing_facts returns.
C4_FailedContributesNothing ==
    outcome = "returned" =>
        \A k \in Filings :
            RecordsOf(k) # {} => RowsOf(all_merged_facts.rows, "factAcc", k) = {}

\* C5: a filing whose fact extraction yielded zero facts without raising has
\* no FailureRecord, none of its later stages ran (no context, label,
\* calculation, definition or merged row carries its accession number) and
\* the orchestrator has moved past it.
C5_ZeroFactsSoftStop ==
    \A k \in Filings :
        fstate[k] = "NoFacts" =>
            /\ RecordsOf(k) = {}
            /\ RowsOf(all_context, "ctxAcc", k) = {}
            /\ RowsOf(all_labels, "labAcc", k) = {}
            /\ \A j \in 1..Len(all_calc) : all_calc[j] # k
            /\ \A j \in 1..Len(all_defn) : all_defn[j] # k
            /\ \A f \in {"factAcc", "ctxAcc", "labAcc"} :
                   RowsOf(all_merged_facts.rows, f, k) = {}
            /\ idx > k

\* a zero-fact filing was passed and a later filing was merged
C5_Witness ==
    \E k \in Filings :
        /\ fstate[k] = "NoFacts"
        /\ \E r \in 1..Len(all_merged_facts.rows) :
               all_merged_facts.rows[r].factAcc > k

\* C6: every row of the merged-facts accumulator joins a fact of one filing
\* with contexts and labels of that same filing (or with none).
C6_RowsScopedToOwnFiling ==
    \A j \in 1..Len(all_merged_facts.rows) :
        LET r == all_merged_facts.rows[j]
        IN  /\ r.ctxAcc \in {NoAcc, r.factAcc}
            /\ r.labAcc \in {NoAcc, r.factAcc}

\* the contexts the context stage scraped for filing k that carry the id
\* a fact refers to
OwnContexts(k, ref) ==
    {j \in 1..Len(all_context) :
        all_context[j].ctxAcc = k /\ all_context[j].contextId = ref}

\* the labels of role "label" the label stage scraped for filing k under
\* the normalized key name
OwnLabels(k, name) ==
    {j \in 1..Len(all_labels) :
        /\ all_labels[j].labAcc = k
        /\ all_labels[j].role = "label"
        /\ all_labels[j].label = name}

\* the rows of the merged-facts accumulator made from fact f
MergedRowsOf(f) ==
    {j \in 1..Len(all_merged_facts.rows) :
        /\ all_merged_facts.rows[j].factAcc = f.factAcc
        /\ all_merged_facts.rows[j].factValue = f.factValue
        /\ all_merged_facts.rows[j].unitRef = f.unitRef}

\* C21: a fact whose contextRef matches no context of its filing is kept by
\* the merge with null period and segment: every merged row made from it
\* has null startDate, endDate, instant and segment, and when a label of its
\* filing resolves for it the table get_filing_facts returns holds a row
\* made from it.
C21_UnmatchedFactKeptWithNulls ==
    \A i \in 1..Len(all_facts) :
        LET f == all_facts[i]
        IN  OwnContexts(f.factAcc, f.contextRef) = {} =>
                /\ \A j \in MergedRowsOf(f) :
                       LET r == all_merged_facts.rows[j]
                       IN  /\ r.startDate = NoDate
                           /\ r.endDate = NoDate
                           /\ r.instant = NoDate
                           /\ r.segment = NoSegment
                /\ (outcome = "returned" /\ OwnLabels(f.factAcc, f.factName) # {})
                       => MergedRowsOf(f) # {}

\* the columns of the model's rows that record where a row came from
HistoryColumns == {"factAcc", "ctxAcc", "labAcc"}

\* row r of the returned table joins a fact with a label of role "label"
\* whose normalized key is the fact's tag name
LabelResolved(r) ==
    \E i \in 1..Len(all_facts), j \in 1..Len(all_labels) :
        /\ all_facts[i].factAcc = r.factAcc
        /\ all_facts[i].factValue = r.factValue
        /\ all_facts[i].unitRef = r.unitRef
        /\ all_labels[j].labAcc = r.labAcc
        /\ all_labels[j].role = "label"
        /\ all_labels[j].label = all_facts[i].factName
        /\ all_labels[j].labelText = r.labelText

\* C22: every row of the merged-facts table get_filing_facts returns has a
\* non-null labelText that comes from a label of role "label" matching the
\* fact's tag name (a fact matched by no such label is not in the table),
\* and the table has exactly the columns labelText, segment, startDate,
\* endDate, instant, factValue, unitRef.
C22_ReturnedRowsAreLabelled ==
    outcome = "returned" =>
        \A j \in 1..Len(all_merged_facts.rows) :
            LET r == all_merged_facts.rows[j]
            IN  /\ r.labelText # Null
                /\ LabelResolved(r)
                /\ DOMAIN r \ HistoryColumns = MergedColumns

\* a returned table that holds a labelled fact while another fact of the
\* same filing, matched only by a label of another role, is left out
C22_Witness ==
    /\ outcome = "returned"
    /\ all_merged_facts.rows # <<>>
    /\ \E i \in 1..Len(all_facts) :
          LET f == all_facts[i]
          IN  /\ OwnLabels(f.factAcc, f.factName) = {}
              /\ \E j \in 1..Len(all_labels) :
                     /\ all_labels[j].labAcc = f.factAcc
                     /\ all_labels[j].label = f.factName
                     /\ all_labels[j].role # "label"
              /\ MergedRowsOf(f) = {}
              /\ \E j \in 1..Len(all_merged_facts.rows) :
                     all_merged_facts.rows[j].factAcc = f.factAcc

\* the merge stage of the current filing has just succeeded, reading the
\* label frame the label stage of this filing bound
MergedOwnLabels ==
    /\ outcome = "running"
    /\ pc = "accumulate"
    /\ context_df.bound
    /\ labels.bound
    /\ labels.rows # <<>>
    /\ labels.rows[1].labAcc = file.accessionNumber

\* the labels of role "label" of the current filing under the key name
LabelsFor(name) ==
    {j \in 1..Len(labels.rows) :
        labels.rows[j].role = "label" /\ labels.rows[j].label = name}

\* the rows of the local merged_facts made from fact f
LocalRowsOf(f) ==
    {j \in 1..Len(merged_facts.rows) :
        /\ merged_facts.rows[j].factName = f.factName
        /\ merged_facts.rows[j].contextRef = f.contextRef
        /\ merged_facts.rows[j].factValue = f.factValue
        /\ merged_facts.rows[j].unitRef = f.unitRef}

\* C23: when k >= 1 labels of role "label" of a filing share the normalized
\* key equal to a fact's tag name, the merge yields exactly k rows for that
\* fact, one per matching label, in the order of the labels.
C23_OneRowPerMatchingLabel ==
    MergedOwnLabels =>
        \A i \in 1..Len(facts_df.rows) :
            LET f == facts_df.rows[i]
            IN  LabelsFor(f.factName) # {} =>
                    /\ Cardinality(LocalRowsOf(f)) = Cardinality(LabelsFor(f.factName))
                    /\ \A j \in LabelsFor(f.factName) :
                           \E r \in LocalRowsOf(f) :
                               merged_facts.rows[r].labelText = labels.rows[j].labelText

\* a fact whose tag name is the key of two labels of role "label" has been
\* merged into two rows with different label texts
C23_Witness ==
    /\ MergedOwnLabels
    /\ \E i \in 1..Len(facts_df.rows) :
          /\ Cardinality(LabelsFor(facts_df.rows[i].factName)) = 2
          /\ \E a, b \in LocalRowsOf(facts_df.rows[i]) :
                 merged_facts.rows[a].labelText # merged_facts.rows[b].labelText

\* C24: the failure list is append-only: each step of a batch run leaves it
\* unchanged or appends one record at its end, so a record once appended is
\* never modified, reordered or removed.
C24_FailureListAppendOnly ==
    [][\/ failed_folders' = failed_folders
       \/ /\ Len(failed_folders') = Len(failed_folders) + 1
          /\ SubSeq(failed_folders', 1, Len(failed_folders)) = failed_folders]_vars

\* the failure list holds records of two stages of one filing and a record
\* of a later filing
C24_Witness ==
    \E a, b, c \in 1..Len(failed_folders) :
        /\ a < b
        /\ b < c
        /\ failed_folders[a].accessionNumber = failed_folders[b].accessionNumber
        /\ failed_folders[a].error # failed_folders[b].error
        /\ failed_folders[b].accessionNumber # failed_folders[c].accessionNumber

\* the positions of the input list at which the entries of a table were
\* produced (accession number k belongs to the k-th filing supplied)
FilingsOf(rows, field) == [j \in 1..Len(rows) |-> rows[j][field]]

\* no entry of a later filing precedes an entry of an earlier filing
InInputOrder(ks) == \A a, b \in 1..Len(ks) : a < b => ks[a] <= ks[b]

\* C25: filings are processed in the order supplied: in every accumulator
\* (facts, contexts, labels, calculations, definitions, merged facts,
\* failure list) each entry produced for filing i precedes each entry
\* produced for filing j whenever i precedes j in the input list.
C25_AccumulatorsInInputOrder ==
    /\ InInputOrder(FilingsOf(all_facts, "factAcc"))
    /\ InInputOrder(FilingsOf(all_context, "ctxAcc"))
    /\ InInputOrder(FilingsOf(all_labels, "labAcc"))
    /\ InInputOrder(all_calc)
    /\ InInputOrder(all_defn)
    /\ InInputOrder(FilingsOf(all_merged_facts.rows, "factAcc"))
    /\ InInputOrder(FilingsOf(failed_folders, "accessionNumber"))

\* two filings have left entries in the facts, contexts, labels and merged
\* facts accumulators and in the failure list
C25_Witness ==
    /\ outcome = "returned"
    /\ \A ks \in { FilingsOf(all_facts, "factAcc"),
                   FilingsOf(all_context, "ctxAcc"),
                   FilingsOf(all_labels, "labAcc"),
                   FilingsOf(all_merged_facts.rows, "factAcc"),
                   FilingsOf(failed_folders, "accessionNumber") } :
          \E a, b \in 1..Len(ks) : ks[a] < ks[b]

\* C26: the merge step leaves its inputs unchanged: the steps that merge
\* one filing and concatenate the result (lines 172-188) change neither that
\* filing's facts, contexts and labels frames nor the accumulated facts,
\* contexts and labels tables.
C26_MergeLeavesInputsUnchanged ==
    [][(outcome = "running" /\ pc \in {"merge", "accumulate"}) =>
           UNCHANGED <<facts_df, context_df, labels, facts_list,
                       all_facts, all_context, all_labels>>]_vars

\* a merge has produced more rows than the filing has facts, and the facts
\* frame still holds the unmerged facts
C26_Witness ==
    /\ outcome = "running"
    /\ pc = "accumulate"
    /\ context_df.bound
    /\ labels.bound
    /\ Len(merged_facts.rows) > Len(facts_df.rows)
    /\ facts_df.rows = WithAcc(facts_list, "factAcc", file.accessionNumber)

\* C27: get_filing_facts skips every filing whose filingDate is before
\* 2009-01-01 whatever its form: when the loop reaches such a filing the
\* only step is to move to the next filing; no document is fetched, no
\* accumulator changes and no FailureRecord is appended.
C27_OldFilingSkipped ==
    [][(/\ outcome = "running"
        /\ pc = "loop"
        /\ idx <= Len(filings_to_scrape)
        /\ file.filingDate[1] < GateYear) =>
           /\ idx' = idx + 1
           /\ pc' = "loop"
           /\ outcome' = "running"
           /\ UNCHANGED <<soup, facts_list, facts_df, context_df, labels,
                          merged_facts, all_facts, all_context, all_labels,
                          all_calc, all_defn, all_metalinks, all_merged_facts,
                          failed_folders>>]_vars

\* a 10-K filed before 2009 was skipped and the filing after it was scraped
C27_Witness ==
    \E k \in Filings :
        /\ filings_to_scrape[k].form = "10-K"
        /\ filings_to_scrape[k].filingDate[1] < GateYear
        /\ fstate[k] = "Skipped"
        /\ RowsOf(all_facts, "factAcc", k) = {}
        /\ RowsOf(all_merged_facts.rows, "factAcc", k + 1) # {}

\* the period of a context row holds exactly one form: an instant, or a
\* startDate with an endDate
OnePeriodForm(row) ==
    (row.instant # NoDate) # (row.startDate # NoDate /\ row.endDate # NoDate)

\* C16: every context in the contexts table, and every context joined to a
\* merged fact, has exactly one of {instant} and {startDate and endDate}
\* populated: a context with both or with neither is left out of the output.
C16_ContextsHaveOnePeriodForm ==
    /\ \A j \in 1..Len(all_context) : OnePeriodForm(all_context[j])
    /\ \A j \in 1..Len(all_merged_facts.rows) :
          all_merged_facts.rows[j].ctxAcc # NoAcc =>
              OnePeriodForm(all_merged_facts.rows[j])

RECURSIVE SeqSum(_)
SeqSum(seq) == IF seq = <<>> THEN 0 ELSE Head(seq) + SeqSum(Tail(seq))

\* C11: in every window of one period (TicksPerPeriod consecutive ticks) at
\* most 10 requests are sent through rate_limited_request, all threads and
\* instances counted together.
C11_SlidingWindowCeiling == SeqSum(wire) <= Calls

\* thread c is inside rate_limited_request and was refused by the limiter
Blocked(c) == callers[c].pc = "sleeping"

\* the request thread c is making has been performed (a thread inside the
\* call cannot start another request, and tries is 0 until requests.get ran)
Sent(c) == callers[c].tries = 1

C13_TransientFetchRetried ==
    \A c \in DOMAIN callers :
        callers[c].result \in {"non-2xx", "ConnectionError"} => callers[c].tries > 1

\* C20: a thread that constructs SECData or TickerData with a taxonomy outside
\* ALLOWED_TAXONOMIES never gets past the constructor: it raises ValueError
\* with no request started.
C20_BadTaxonomyRaisesFirst ==
    \A c \in DOMAIN callers :
        callers[c].taxonomy \notin ALLOWED_TAXONOMIES =>
            /\ callers[c].pc \in {"new", "raised"}
            /\ callers[c].pc = "raised" => callers[c].result = "ValueError"
            /\ callers[c].tries = 0
            /\ callers[c].left = 0

\* TickerData with a taxonomy outside the list has raised, while a
\* TickerData with an allowed one sends the requests of its constructor
C20_Witness ==
    \E c \in DOMAIN callers :
        /\ callers[c].cls = "TickerData"
        /\ callers[c].taxonomy \notin ALLOWED_TAXONOMIES
        /\ callers[c].pc = "raised"
        /\ callers[c].result = "ValueError"

\* ------------------------------------------------------------------------
\* Properties of the post-processing
\* ------------------------------------------------------------------------
\* the facts after the value cleaner, as the deduplication is specified over
\* them, and the positions of those no later cleaned fact agrees with on
\* (labelText, segment, startDate, endDate, instant, factValue)
CleanedFacts == clean_values_in_facts(all_merged_facts.rows)

LastOfGroups ==
    { CleanedFacts[i].row : i \in
        { i \in 1..Len(CleanedFacts) :
            \A j \in (i + 1)..Len(CleanedFacts) :
                KeyOf(CleanedFacts[j], SplitSubset) # KeyOf(CleanedFacts[i], SplitSubset) } }

\* C7: once the page has run its deduplication, the run has not raised, and
\* of every group of cleaned facts with identical (labelText, segment,
\* startDate, endDate, instant, factValue) the output holds exactly one row,
\* the occurrence that comes last in processing order, with that
\* occurrence's unitRef.
C7_DedupLastWins ==
    (page_pc = "done" \/ page_error = "KeyError") =>
        /\ page_pc = "done"
        /\ {final_df.rows[k].row : k \in 1..Len(final_df.rows)} = LastOfGroups
        /\ Len(final_df.rows) = Cardinality(LastOfGroups)
        /\ \A k \in 1..Len(final_df.rows) : \A i \in 1..Len(CleanedFacts) :
              CleanedFacts[i].row = final_df.rows[k].row =>
                  final_df.rows[k].unitRef = CleanedFacts[i].unitRef

\* a text made of one or more digits
IsDigitRun(text) == Len(text) >= 1 /\ \A i \in 1..Len(text) : text[i] \in Digits

\* an optionally signed decimal: the whole text is -?\d+(\.\d+)?
IsSignedDecimal(text) ==
    LET body == IF text # <<>> /\ text[1] = "-" THEN Tail(text) ELSE text
    IN  \/ IsDigitRun(body)
        \/ \E k \in 2..(Len(body) - 1) :
              /\ body[k] = "."
              /\ IsDigitRun(SubSeq(body, 1, k - 1))
              /\ IsDigitRun(SubSeq(body, k + 1, Len(body)))

\* the number a signed decimal denotes, as value * 10^FracDigits
NumberDenoted(text) ==
    LET neg  == text[1] = "-"
        body == IF neg THEN Tail(text) ELSE text
        dot  == IF \E k \in 1..Len(body) : body[k] = "."
                THEN CHOOSE k \in 1..Len(body) : body[k] = "."
                ELSE Len(body) + 1
        mag  == DigitsValue(body, 1, dot) * Pow10(FracDigits)
                + DigitsValue(body, dot + 1, Len(body) + 1)
                  * Pow10(FracDigits - (Len(body) - Min(dot, Len(body))))
    IN  IF neg THEN 0 - mag ELSE mag

\* a text without its final newline, if it has one
WithoutFinalNewline(text) ==
    IF text # <<>> /\ text[Len(text)] = "\n" THEN SubSeq(text, 1, Len(text) - 1)
    ELSE text

\* the positions of the input rows of the value cleaner whose text is a
\* signed decimal in its entirety
StrictlyNumeric ==
    {i \in 1..Len(page_merged_facts.rows) :
        IsSignedDecimal(page_merged_facts.rows[i].factValue)}

\* ... and of those whose text is a signed decimal once a final newline is
\* taken off
NumericUpToNewline ==
    {i \in 1..Len(page_merged_facts.rows) :
        IsSignedDecimal(WithoutFinalNewline(page_merged_facts.rows[i].factValue))}

CanonicalNamesOf(text) ==
    {standard_name_mapping[i].name : i \in
        {i \in 1..Len(standard_name_mapping) :
            \E k \in 1..Len(standard_name_mapping[i].tags) :
                standard_name_mapping[i].tags[k] = text}}

\* C9: translate_labels_to_standard_names does not raise, and for every row
\* with a labelText it sets standardName to the canonical name the inverse
\* table gives when labelText is a synonym in it, to labelText itself
\* otherwise; standardName is never null and the row is otherwise unchanged.
C9_TranslatorTotality ==
    [][page_pc = "translate" =>
        /\ page_pc' = "dedup"
        /\ page_error' = ""
        /\ Len(final_df'.rows) = Len(final_df.rows)
        /\ \A k \in 1..Len(final_df.rows) :
              LET text == final_df.rows[k].labelText
                  name == final_df'.rows[k].standardName
              IN  /\ name # Null
                  /\ text \in DOMAIN reversed_mapping.map =>
                        /\ name = reversed_mapping.map[text]
                        /\ name \in CanonicalNamesOf(text)
                  /\ text \notin DOMAIN reversed_mapping.map => name = text
                  /\ DropColumns(final_df'.rows[k], {"standardName"}) = final_df.rows[k]
    ]_vars

\* the translator has acted on a frame with a synonym and with a label the
\* inverse table does not know
C9_Witness ==
    /\ page_pc = "dedup"
    /\ \E k \in 1..Len(final_df.rows) :
          /\ final_df.rows[k].labelText \in DOMAIN reversed_mapping.map
          /\ final_df.rows[k].standardName # final_df.rows[k].labelText
    /\ \E k \in 1..Len(final_df.rows) :
          /\ final_df.rows[k].labelText \notin DOMAIN reversed_mapping.map
          /\ final_df.rows[k].standardName = final_df.rows[k].labelText

\* the whole days from startDate to endDate of a row that has both
DurationDays(row) == DayNumber(row.endDate) - DayNumber(row.startDate)

\* days / 30.25 rounds to months: it is less than half a unit away from it
\* (|8 * days - 242 * months| < 121)
RoundsTo(days, months) ==
    /\ 8 * days - 242 * months < 121
    /\ 242 * months - 8 * days < 121

\* the classification of a duration of days whole days, by the ranges of days
BucketOf(days) ==
    CASE days \in 76..105  -> "Three Months Ended"
      [] days \in 167..196 -> "Six Months Ended"
      [] days \in 258..287 -> "Nine Months Ended"
      [] days \in 348..378 -> "Twelve Months Ended"
      [] OTHER             -> Null

\* C14: once get_monthly_period has run, every row with a startDate and an
\* endDate d whole days apart has Months Ended "Three/Six/Nine/Twelve Months
\* Ended" exactly when d / 30.25 rounds to 3, 6, 9 or 12, that is when d is
\* in 76..105, 167..196, 258..287 or 348..378, and null for every other d;
\* 89 days are "Three Months Ended".
C14_PeriodBuckets ==
    "Months Ended" \in page_merged_facts.cols =>
        \A k \in 1..Len(page_merged_facts.rows) :
            LET row == page_merged_facts.rows[k]
                d   == DurationDays(row)
            IN  (row.startDate # NoDate /\ row.endDate # NoDate) =>
                    /\ row["Months Ended"] = BucketOf(d)
                    /\ row["Months Ended"] = "Three Months Ended" <=> RoundsTo(d, 3)
                    /\ row["Months Ended"] = "Six Months Ended" <=> RoundsTo(d, 6)
                    /\ row["Months Ended"] = "Nine Months Ended" <=> RoundsTo(d, 9)
                    /\ row["Months Ended"] = "Twelve Months Ended" <=> RoundsTo(d, 12)
                    /\ d = 89 => row["Months Ended"] = "Three Months Ended"

\* get_monthly_period has classified a period of 105 days, the last day of
\* the first range, as three months
C14_Witness ==
    /\ "Months Ended" \in page_merged_facts.cols
    /\ \E k \in 1..Len(page_merged_facts.rows) :
          LET row == page_merged_facts.rows[k]
          IN  /\ row.startDate # NoDate /\ row.endDate # NoDate
              /\ DurationDays(row) = 105
              /\ row["Months Ended"] = "Three Months Ended"

\* C15: after split_facts_into_start_instant, no row of the merged facts is
\* both in the duration table and in the instant table.
C15_SplitTablesDisjoint ==
    split.bound =>
        \A i \in 1..Len(split.start_end) : \A j \in 1..Len(split.instant) :
            split.start_end[i].row # split.instant[j].row

\* the segment cleaner has run and final_df is its output
SegmentCleaned == "labelText_segmentValue" \in final_df.cols

\* the segment of the fact that a row of final_df came from
SourceSegment(r) == all_merged_facts.rows[r.row].segment

\* C18: in the output of the segment cleaner, a row of a fact without segment
\* carries the empty string, and not null, as its segment axis and as its
\* segment value.
C18_NoSegmentIsEmptyString ==
    SegmentCleaned =>
        \A k \in 1..Len(final_df.rows) :
            LET r == final_df.rows[k]
            IN  SourceSegment(r).isNone =>
                    /\ r.labelText_segmentAxis = ""
                    /\ r.labelText_segmentValue = ""

\* the member of a segment has no row of role 'label' in the labels frame
MemberUnlabelled(seg) ==
    \A j \in 1..Len(all_labels) :
        all_labels[j].role = "label" => all_labels[j].label # Lower(seg.items[1][2])

\* C19: in the output of the segment cleaner, a row of a fact whose segment
\* member resolves to no label shows the member text as the context has it,
\* letter case included, and never null.
C19_UnlabelledMemberVerbatim ==
    SegmentCleaned =>
        \A k \in 1..Len(final_df.rows) :
            LET r   == final_df.rows[k]
                seg == SourceSegment(r)
            IN  (~seg.isNone /\ MemberUnlabelled(seg)) =>
                    /\ r.labelText_segmentValue = seg.items[1][2]
                    /\ r.labelText_segmentValue # Null

\* the positions that the rows of a frame had in the scraped table
PositionsOf(rows) == [k \in 1..Len(rows) |-> rows[k].row]

\* C28: the Segment Normalizer preserves rows: when clean_values_in_segment
\* returns, its output has exactly one row per input row, in the input's
\* order, whatever labels table it was given (the batch-wide table with a
\* label key contributed by two filings included).
C28_SegmentCleanerPreservesRows ==
    [][(page_pc = "segment" /\ page_pc' = "translate") =>
           PositionsOf(final_df'.rows) = PositionsOf(final_df.rows)]_vars

\* C29: the Segment Normalizer is total over the segments the Context
\* Resolver produces (None, an empty mapping, one pair, several pairs):
\* clean_values_in_segment never raises.
C29_SegmentCleanerTotal ==
    ~(page_pc = "raised" /\ page_error = "IndexError")

\* the reads of filings so far have returned at most one table
OneTableRead == Cardinality(ticker_data.read) <= 1

\* C30 as stated: filings are memoized per TickerData instance: over any
\* sequence of reads of filings, forms, filing_urls, latest_* and
\* submissions, also after the caller has removed the 'filings' key from the
\* submissions mapping, get_filings runs at most once and every read of
\* filings returns the same table.
C30_GetFilingsRunsOnce ==
    /\ ticker_data.runs <= 1
    /\ OneTableRead

\* C30, amended: over any such sequence of reads get_filings returns at most
\* once, and once it has returned it is not run again; every read of filings
\* that returns gives the table of that one run.  (A run that raises leaves
\* _filings unset, and the next read runs get_filings again.)
C30_FilingsMemoized ==
    /\ ticker_data.returns <= 1
    /\ OneTableRead
    /\ ticker_data.filings # 0 =>
          /\ ticker_data.read = {ticker_data.filings}
          /\ ticker_data.runs = ticker_data.filings
          /\ ~ticker_data.raised

\* after a failed run and a successful one the caller has removed the
\* 'filings' key, and forms has then been read from the memoized table
C30_Witness ==
    /\ ticker_data.submissions = "popped"
    /\ ticker_data.last = "forms"
    /\ ticker_data.forms = ticker_data.filings
    /\ ticker_data.runs = 2
    /\ ticker_data.returns = 1

\* a synonym listed under two different canonical names
HasDuplicateSynonym(table) ==
    \E i, j \in 1..Len(table) :
        /\ table[i].name # table[j].name
        /\ \E k \in 1..Len(table[i].tags) : \E l \in 1..Len(table[j].tags) :
              table[i].tags[k] = table[j].tags[l]

\* C10: once the construction of the inverse table has been run on a table
\* that lists one synonym under two canonical names, it has raised and no
\* inverse table exists.
C10_DuplicateSynonymRejected ==
    (page_pc # "import" /\ HasDuplicateSynonym(standard_name_mapping)) =>
        /\ ~reversed_mapping.bound
        /\ page_error # ""

====
